---- MODULE Spec2Model ----
(***************************************************************************)
(* Gossip messaging plane of the disaster-response node.                   *)
(*                                                                         *)
(*   - MessageStorage (src/storage.py): bounded, TTL-aware retained set    *)
(*     plus the never-trimmed set of seen ids.                             *)
(*   - P2PNode (src/p2p.py): TCP dialer / acceptor, publish, ingest with   *)
(*     dedup, handler fan-out and flood forwarding.                        *)
(*   - BLENode (src/ble.py): secondary transport with its own seen set.    *)
(*                                                                         *)
(* The specifications share the variables:                                 *)
(*   SpecStore  one MessageStorage driven by store / cleanup / clock       *)
(*   Spec       a mesh of nodes that dial each other, publish and ingest   *)
(*   SpecBle    the same mesh with the BLE transport running as well       *)
(*   SpecChain  the three-node chain A -> B -> C (FairChain adds the       *)
(*              fairness of the reader tasks)                              *)
(*   SpecPeers  one node's peer registry under discovery, dialing, remote  *)
(*              close, publish and stop(), with their awaits               *)
(*   SpecWire   one peer socket written by concurrent tasks, part by part  *)
(*   SpecFrames the two frame readers, the declared length and the body of *)
(*              a frame                                                    *)
(*   SpecStop   stop() called on a started or a never started node, once   *)
(*              or again                                                   *)
(*   SpecHandlers  the handlers of one topic, some of which raise          *)
(*   SpecWriteFail broadcast and forwarding to peers whose connection is   *)
(*              lost                                                       *)
(*   SpecTriangle  three nodes that all dialed each other                  *)
(*   SpecRing   the ring A -> B -> C -> A with the JSON form of the        *)
(*              envelopes on the connections                               *)
(*   SpecNode   one node with its storage behind the subscribed handler    *)
(*   SpecSize   publish of payloads around the BLE size limit              *)
(*   SpecEndpoint  a peer dialed under its endpoint and under its node id  *)
(*   SpecCleanup   the cleanup loop next to peers that went away           *)
(*   SpecStream the byte stream of one connection, cut into segments       *)
(*   SpecDials  concurrent dials of one node to one peer id                *)
(***************************************************************************)
EXTENDS Integers, Sequences, FiniteSets, TLC

(***************************************************************************)
(* Bounds of the model                                                     *)
(***************************************************************************)
\* capacities 1..SmallCap are explored from an empty or a full store
SmallCap == 2
\* a capacity large enough that len // 10 exceeds 1
BigCap == 20
\* number of not-yet-seen ids stored after Init (ids 1..MaxFresh)
MaxFresh == 2
\* duplicates_rejected is capped at this value
MaxDup == 1
\* the clock runs over 0..MaxNow
MaxNow == 2
\* the ttl_seconds values of the model (stand for 60..86400, src/models.py:124)
Ttls == {1, 2}
\* the timestamps messages arrive with
Timestamps == {0, 1, 2}
\* ids of the messages a store holds at Init are FirstOld, FirstOld + 1, ...
FirstOld == 101

\* publish() calls over all nodes of a run
MaxPublish == 4
\* publish() calls of the node of the peer-management specification
MaxPeerPublish == 1
\* publish() calls over all nodes of a run of the BLE specification
MaxBlePublish == 2
\* frames written to one connection and not yet read
MaxQueue == 2
\* handler calls recorded per node
MaxHandled == 3
\* frames a peer writes to one connection
MaxFrames == 2
\* stop() calls on one node
MaxStop == 2
\* connections a node opens to one peer id
MaxConns == 3
\* bytes of the body of a frame on the byte stream
BodyLen == 2

(***************************************************************************)
(* Limits of the program, scaled down                                      *)
(***************************************************************************)
\* publish() calls on the ring
MaxRingPublish == 2
\* the age after which a peer counts as stale (300 s), in clock ticks
STALE_AFTER == 1
\* cap of P2PNode._seen_messages (10000) and the number of ids a trim keeps (5000)
SEEN_CAP == 2
SEEN_KEEP == 1
\* cap of BLENode._seen_messages (5000) and the number of ids a trim keeps (2500)
BLE_SEEN_CAP == 2
BLE_SEEN_KEEP == 1

(***************************************************************************)
(* MessageStorage  (src/storage.py)                                        *)
(***************************************************************************)
VARIABLES
  messages,             \* _messages: the dict, as the sequence of its values in insertion order
  seen_ids,             \* _seen_ids
  max_messages,         \* _max_messages
  total_received,       \* _total_received
  duplicates_rejected,  \* _duplicates_rejected
  now,                  \* datetime.utcnow(), in ttl units
  next_id,              \* the next id uuid4() hands out (fresh ids are 1, 2, 3, ...)
  ret                   \* the last storage call, what it returned and what it logged

storeVars == <<messages, seen_ids, max_messages, total_received,
               duplicates_rejected, now, next_id, ret>>

Max(a, b) == IF a > b THEN a ELSE b

\* HelpRequest, reduced to the fields the storage reads
HelpRequest(i, ts, ttl) == [id |-> i, timestamp |-> ts, ttl_seconds |-> ttl]

\* is_expired with >= : a message expires the moment its age reaches ttl_seconds
is_expired_ge(m, t) == (t - m.timestamp) >= m.ttl_seconds

\* HelpRequest.is_expired: age > ttl_seconds
is_expired(m, t) == (t - m.timestamp) > m.ttl_seconds

\* has_seen(message_id)
has_seen(i) == i \in seen_ids

\* the subsequence of s at the indices outside D, order preserved (del dict[k])
DelIdx(s, D) ==
  LET F[k \in 0..Len(s)] ==
        IF k = 0 THEN <<>>
        ELSE IF k \in D THEN F[k-1] ELSE Append(F[k-1], s[k])
  IN F[Len(s)]

\* position of s[i] in sorted(s, key=timestamp): sorted() is stable
SortRank(s, i) ==
  Cardinality({j \in 1..Len(s) :
                 \/ s[j].timestamp < s[i].timestamp
                 \/ s[j].timestamp = s[i].timestamp /\ j < i})

\* evict_count without the 10 % share: always one message
evict_count_one(s) == IF Len(s) = 0 THEN 0 ELSE 1

\* evict_count of _evict_oldest
evict_count(s) == IF Len(s) = 0 THEN 0 ELSE Max(1, Len(s) \div 10)

\* _evict_oldest without the sort: drops the first evict_count entries in insertion order
evict_oldest_unsorted(s) ==
  DelIdx(s, {i \in 1..Len(s) : i <= evict_count(s)})

\* _evict_oldest: drop the first evict_count entries of the list sorted by timestamp
evict_oldest(s) ==
  DelIdx(s, {i \in 1..Len(s) : SortRank(s, i) < evict_count(s)})

\* the messages store() is called with: a fresh id or an id used before
\* (what store() does with a seen id does not depend on the other fields)
StoreInputs ==
  {HelpRequest(next_id, ts, ttl) : ts \in Timestamps, ttl \in Ttls}
    \cup {HelpRequest(i, 0, 1) : i \in seen_ids \cap ((1..MaxFresh) \cup {FirstOld})}

\* store(message)
store(m) ==
  /\ IF m.id \in seen_ids
       THEN /\ duplicates_rejected < MaxDup
            /\ duplicates_rejected' = duplicates_rejected + 1
            /\ ret' = [op |-> "store", id |-> m.id, result |-> FALSE, evicted |-> 0]
            /\ UNCHANGED <<messages, seen_ids, total_received, next_id>>
       ELSE IF is_expired(m, now)
         THEN /\ ret' = [op |-> "store", id |-> m.id, result |-> FALSE, evicted |-> 0]
              /\ UNCHANGED <<messages, seen_ids, total_received,
                             duplicates_rejected, next_id>>
         ELSE LET full == Len(messages) >= max_messages
                  kept == IF full THEN evict_oldest(messages) ELSE messages
              IN /\ messages' = Append(kept, m)
                 /\ seen_ids' = seen_ids \cup {m.id}
                 /\ total_received' = total_received + 1
                 /\ next_id' = next_id + 1
                 /\ ret' = [op |-> "store", id |-> m.id, result |-> TRUE,
                            evicted |-> IF full THEN evict_count(messages) ELSE 0]
                 /\ UNCHANGED duplicates_rejected
  /\ UNCHANGED <<max_messages, now>>

\* store() that deduplicates against the retained dict instead of _seen_ids
Store_dedup_retained(m) ==
  /\ m \in StoreInputs
  /\ m.id = next_id => next_id <= MaxFresh
  /\ IF \E i \in 1..Len(messages) : messages[i].id = m.id
       THEN /\ duplicates_rejected < MaxDup
            /\ duplicates_rejected' = duplicates_rejected + 1
            /\ ret' = [op |-> "store", id |-> m.id, result |-> FALSE, evicted |-> 0]
            /\ UNCHANGED <<messages, seen_ids, total_received, next_id>>
       ELSE IF is_expired(m, now)
         THEN /\ ret' = [op |-> "store", id |-> m.id, result |-> FALSE, evicted |-> 0]
              /\ UNCHANGED <<messages, seen_ids, total_received,
                             duplicates_rejected, next_id>>
         ELSE LET full == Len(messages) >= max_messages
                  kept == IF full THEN evict_oldest(messages) ELSE messages
              IN /\ messages' = Append(kept, m)
                 /\ seen_ids' = seen_ids \cup {m.id}
                 /\ total_received' = total_received + 1
                 /\ next_id' = IF m.id = next_id THEN next_id + 1 ELSE next_id
                 /\ ret' = [op |-> "store", id |-> m.id, result |-> TRUE,
                            evicted |-> IF full THEN evict_count(messages) ELSE 0]
                 /\ UNCHANGED duplicates_rejected
  /\ UNCHANGED <<max_messages, now>>

\* store() whose capacity test is > instead of >=
Store_capacity_gt(m) ==
  /\ m \in StoreInputs
  /\ m.id = next_id => next_id <= MaxFresh
  /\ IF m.id \in seen_ids
       THEN /\ duplicates_rejected < MaxDup
            /\ duplicates_rejected' = duplicates_rejected + 1
            /\ ret' = [op |-> "store", id |-> m.id, result |-> FALSE, evicted |-> 0]
            /\ UNCHANGED <<messages, seen_ids, total_received, next_id>>
       ELSE IF is_expired(m, now)
         THEN /\ ret' = [op |-> "store", id |-> m.id, result |-> FALSE, evicted |-> 0]
              /\ UNCHANGED <<messages, seen_ids, total_received,
                             duplicates_rejected, next_id>>
         ELSE LET full == Len(messages) > max_messages
                  kept == IF full THEN evict_oldest(messages) ELSE messages
              IN /\ messages' = Append(kept, m)
                 /\ seen_ids' = seen_ids \cup {m.id}
                 /\ total_received' = total_received + 1
                 /\ next_id' = next_id + 1
                 /\ ret' = [op |-> "store", id |-> m.id, result |-> TRUE,
                            evicted |-> IF full THEN evict_count(messages) ELSE 0]
                 /\ UNCHANGED duplicates_rejected
  /\ UNCHANGED <<max_messages, now>>

\* store() called with one of the messages of StoreInputs
Store(m) ==
  /\ m \in StoreInputs
  /\ m.id = next_id => next_id <= MaxFresh
  /\ store(m)

\* cleanup_expired() that also forgets the ids of the messages it removes
CleanupExpired_forget_ids ==
  LET expired_ids == {i \in 1..Len(messages) : is_expired(messages[i], now)}
  IN /\ messages' = DelIdx(messages, expired_ids)
     /\ seen_ids' = seen_ids \ {messages[i].id : i \in expired_ids}
     /\ ret' = [op |-> "cleanup_expired", id |-> 0,
                result |-> Cardinality(expired_ids), evicted |-> 0]
     /\ UNCHANGED <<max_messages, total_received,
                    duplicates_rejected, now, next_id>>

\* cleanup_expired() that also removes the messages whose age equals ttl_seconds
CleanupExpired_at_ttl ==
  LET expired_ids == {i \in 1..Len(messages) : is_expired_ge(messages[i], now)}
  IN /\ messages' = DelIdx(messages, expired_ids)
     /\ ret' = [op |-> "cleanup_expired", id |-> 0,
                result |-> Cardinality(expired_ids), evicted |-> 0]
     /\ UNCHANGED <<seen_ids, max_messages, total_received,
                    duplicates_rejected, now, next_id>>

\* cleanup_expired()
CleanupExpired ==
  LET expired_ids == {i \in 1..Len(messages) : is_expired(messages[i], now)}
  IN /\ messages' = DelIdx(messages, expired_ids)
     /\ ret' = [op |-> "cleanup_expired", id |-> 0,
                result |-> Cardinality(expired_ids), evicted |-> 0]
     /\ UNCHANGED <<seen_ids, max_messages, total_received,
                    duplicates_rejected, now, next_id>>

\* sorted(..., key=lambda r: r.timestamp, reverse=True) is stable: x, which
\* comes after the entries of the sorted list t in the dict, goes behind every
\* entry whose timestamp is not smaller
InsertDesc(t, x) ==
  LET p == Cardinality({j \in 1..Len(t) : t[j].timestamp >= x.timestamp})
  IN SubSeq(t, 1, p) \o <<x>> \o SubSeq(t, p + 1, Len(t))

RECURSIVE SortDesc(_)
SortDesc(s) ==
  IF s = <<>> THEN <<>>
  ELSE InsertDesc(SortDesc(SubSeq(s, 1, Len(s) - 1)), s[Len(s)])

NotExpiredNow(m) == ~is_expired(m, now)

\* get_all that ignores include_expired and returns every retained message
get_all_unfiltered(include_expired) == SortDesc(messages)

\* get_all(include_expired): the retained messages, without the expired ones
\* unless include_expired, newest first
get_all(include_expired) ==
  SortDesc(IF include_expired THEN messages ELSE SelectSeq(messages, NotExpiredNow))

\* the clock advances
Tick ==
  /\ now < MaxNow
  /\ now' = now + 1
  /\ UNCHANGED <<messages, seen_ids, max_messages, total_received,
                 duplicates_rejected, next_id, ret>>

(***************************************************************************)
(* P2PNode  (src/p2p.py)  and  BLENode  (src/ble.py)                       *)
(***************************************************************************)
Nodes == {"A", "B", "C"}
\* the nodes of the mesh specification
MeshNodes == {"A", "B"}
\* host:port of each node's TCP server
Endpoint == [n \in Nodes |-> CASE n = "A" -> "127.0.0.1:4001"
                               [] n = "B" -> "127.0.0.1:4002"
                               [] OTHER   -> "127.0.0.1:4003"]
\* keys of _peer_writers: the peer's node_id, or the literal endpoint when the
\* dialed address carried no /peer_id
PeerKeys == Nodes \cup {Endpoint[n] : n \in Nodes}
\* the node a connection registered under key k leads to
KeyTarget(k) == IF k \in Nodes THEN k ELSE CHOOSE n \in Nodes : Endpoint[n] = k
\* an outbound connection is named by its dialer and the key it is registered under
Links == {l \in Nodes \X PeerKeys : KeyTarget(l[2]) # l[1]}
\* payload ids (HelpRequest.id)
MessageIds == {"req-1", "req-2", "req-3"}
\* the order in which a node draws them
IdRank(i) == CASE i = "req-1" -> 1 [] i = "req-2" -> 2 [] OTHER -> 3

VARIABLES
  peer_writers,       \* _peer_writers: per node, the keys that hold a writer
  chan,               \* per outbound connection, the frames written and not yet read by the acceptor
  seen_messages,      \* P2PNode._seen_messages
  handled,            \* per node, the payloads its subscribed handler was called with, in call order
  published,          \* per node, the payloads publish() was called with, in call order (_messages_sent is its length)
  messages_received,  \* _messages_received
  enable_ble,         \* enable_ble / _ble_node is set
  ble_clients,        \* BLENode._connected_clients: the peers a node writes to as GATT central
  ble_chan,           \* per node, the GATT writes sent to it and not yet handled
  ble_seen,           \* BLENode._seen_messages
  ble_uuid            \* the number of uuid4() message ids BLENode.broadcast has drawn

netVars == <<peer_writers, chan, seen_messages, handled, published,
             messages_received, enable_ble, ble_clients, ble_chan, ble_seen, ble_uuid>>

VARIABLES
  connected_peers,    \* _connected_peers: per node, the peer ids in the connected set
  peers,              \* _peers: per node, the peer ids that have a PeerInfo
  running,            \* _running
  sock,               \* per dialed connection: "none", "open", "eof" (the peer closed it),
                      \* "closed" (the dialer closed its writer, the reader task has not
                      \* returned yet) or "gone" (closed by the peer and cleaned up)
  dialing,            \* per node, the keys of the _connect_to_peer tasks created and not yet run
  bcast,              \* per node, the _broadcast call in progress
  stop_st,            \* per node, the stop() call in progress
  last_beacon,        \* the last datagram the UDP discovery listener received
  server,             \* _server: "none", "listening" or "closed"
  tasks,              \* _tasks: "none" (empty, never filled), "running" or "cancelled"
  ble_node,           \* _ble_node: "none" or "started"
  dials,              \* the connections of the node to one peer id: the _connect_to_peer
                      \* tasks created and not yet run, every connection opened, and the
                      \* connection whose writer _peer_writers holds
  stream,             \* the byte stream of one connection to the node: the frames written,
                      \* the bytes on their way, the bytes in the StreamReader's buffer
                      \* and where the reader's loop stands
  pending_messages    \* DisasterService._pending_messages: per node, the lengths of the
                      \* encoded messages queued for notification

lifeVars == <<server, tasks, ble_node, pending_messages, stream, dials>>

peerVars == <<connected_peers, peers, running, sock, dialing, bcast, stop_st, last_beacon,
              lifeVars>>

\* the two frame readers of a node
Readers == {"accepted", "dialed"}
\* the tasks that write to one peer socket at the same time
WTasks == {"publish-1", "publish-2", "forward"}

VARIABLES
  wire,               \* the bytes written to one peer socket, as the sequence of the parts written
  wtask,              \* per writing task, the number of its write() calls made so far
  inbox,              \* per reader, the frames its peer has written to the connection, in order
  rconn,              \* per reader, whether the connection is open and how many frames were read
  handler_log         \* per delivered message, the subscribed handlers that were called

wireVars == <<wire, wtask, inbox, rconn, handler_log>>

\* GossipMessage as publish() builds it: message_id = payload["id"]
GossipMessage(payload, sender) ==
  [payload |-> payload, sender_id |-> sender, message_id |-> payload.id]

\* str(uuid4()): the k-th id drawn
uuid4(k) == "uuid-" \o ToString(k)

\* BLEMessage as BLENode.broadcast builds it: message_id = str(uuid4())
BLEMessage(payload, sender, uuid) ==
  [payload |-> payload, sender_id |-> sender, message_id |-> uuid]

\* _messages_sent of node n
messages_sent(n) == Len(published[n])

\* the payloads node n publishes: any id, created at the node's next clock reading
PublishInputs(n) ==
  {[id |-> i, sender_id |-> n, timestamp |-> messages_sent(n) + 1] : i \in MessageIds}

SumSent == messages_sent("A") + messages_sent("B") + messages_sent("C")

\* set(list(s)[-keep:]) when len(s) > cap: a set has no insertion order, so any
\* keep of its elements may be the ones that stay
Trimmed(s, cap, keep) ==
  IF Cardinality(s) > cap
    THEN {t \in SUBSET s : Cardinality(t) = keep}
    ELSE {s}

\* the connections node n writes msg to when it forwards or broadcasts,
\* skipping the key `except`
WriteTo(n, msg, except) ==
  [l \in Links |->
     IF l[1] = n /\ l[2] \in peer_writers[n] /\ l[2] # except
       THEN Append(chan[l], msg)
       ELSE chan[l]]

NoKey == "none"

\* _ble_node.broadcast(topic, payload): a fresh uuid as message_id, marked seen,
\* written to every connected client
BleBroadcast(n, payload) ==
  IF enable_ble[n]
    THEN /\ ble_uuid' = ble_uuid + 1
         /\ ble_seen' = [ble_seen EXCEPT ![n] = @ \cup {uuid4(ble_uuid + 1)}]
         /\ ble_chan' = [q \in Nodes |->
                           IF q \in ble_clients[n]
                             THEN Append(ble_chan[q], BLEMessage(payload, n, uuid4(ble_uuid + 1)))
                             ELSE ble_chan[q]]
    ELSE UNCHANGED <<ble_uuid, ble_seen, ble_chan>>

\* publish(topic, payload)
Publish(n, payload) ==
  LET message == GossipMessage(payload, n)
  IN /\ \A k \in peer_writers[n] : Len(chan[<<n, k>>]) < MaxQueue
     /\ \A q \in ble_clients[n] : Len(ble_chan[q]) < MaxQueue
     /\ seen_messages' = [seen_messages EXCEPT ![n] = @ \cup {message.message_id}]
     /\ chan' = WriteTo(n, message, NoKey)
     /\ BleBroadcast(n, payload)
     /\ published' = [published EXCEPT ![n] = Append(@, payload)]
     /\ UNCHANGED <<peer_writers, handled, messages_received, enable_ble, ble_clients>>

\* _handle_incoming_message without the gossip loop: delivers, forwards to nobody
HandleIncoming_no_forward(n, message, rest) ==
  IF message.message_id \in seen_messages[n]
    THEN /\ chan' = rest
         /\ UNCHANGED <<seen_messages, handled, messages_received>>
    ELSE /\ Len(handled[n]) < MaxHandled
         /\ \E kept \in Trimmed(seen_messages[n] \cup {message.message_id},
                                SEEN_CAP, SEEN_KEEP) :
              seen_messages' = [seen_messages EXCEPT ![n] = kept]
         /\ messages_received' = [messages_received EXCEPT ![n] = @ + 1]
         /\ handled' = [handled EXCEPT ![n] = Append(@, message.payload)]
         /\ chan' = rest

\* _handle_incoming_message(message) on node n; rest is chan without the frame just read
HandleIncoming(n, message, rest) ==
  IF message.message_id \in seen_messages[n]
    THEN /\ chan' = rest
         /\ UNCHANGED <<seen_messages, handled, messages_received>>
    ELSE /\ Len(handled[n]) < MaxHandled
         /\ \A k \in peer_writers[n] : Len(chan[<<n, k>>]) < MaxQueue
         /\ \E kept \in Trimmed(seen_messages[n] \cup {message.message_id},
                                SEEN_CAP, SEEN_KEEP) :
              seen_messages' = [seen_messages EXCEPT ![n] = kept]
         /\ messages_received' = [messages_received EXCEPT ![n] = @ + 1]
         /\ handled' = [handled EXCEPT ![n] = Append(@, message.payload)]
         /\ chan' = [l \in Links |->
                       IF l[1] = n /\ l[2] \in peer_writers[n] /\ l[2] # message.sender_id
                         THEN Append(rest[l], message)
                         ELSE rest[l]]

\* a reader that takes the newest frame of the stream instead of the oldest
Ingest_newest_first(l) ==
  /\ chan[l] # <<>>
  /\ HandleIncoming(KeyTarget(l[2]), chan[l][Len(chan[l])],
                    [chan EXCEPT ![l] = SubSeq(@, 1, Len(@) - 1)])
  /\ UNCHANGED <<peer_writers, published, enable_ble, ble_clients,
                 ble_chan, ble_seen, ble_uuid>>

\* the reader of the accepted connection l (_handle_peer_connection) takes the
\* next frame and hands it to _handle_incoming_message
Ingest(l) ==
  /\ chan[l] # <<>>
  /\ HandleIncoming(KeyTarget(l[2]), Head(chan[l]), [chan EXCEPT ![l] = Tail(@)])
  /\ UNCHANGED <<peer_writers, published, enable_ble, ble_clients,
                 ble_chan, ble_seen, ble_uuid>>

\* _connect_to_peer(peer_addr): node n dials the peer of key k and registers the
\* writer under k, whatever the tables hold under other keys
Dial(n, k) ==
  /\ <<n, k>> \in Links
  /\ sock[<<n, k>>] \in {"none", "gone"}
  /\ peer_writers' = [peer_writers EXCEPT ![n] = @ \cup {k}]
  /\ connected_peers' = [connected_peers EXCEPT ![n] = @ \cup {k}]
  /\ peers' = [peers EXCEPT ![n] = @ \cup {k}]
  /\ sock' = [sock EXCEPT ![<<n, k>>] = "open"]
  /\ UNCHANGED <<chan, seen_messages, handled, published, messages_received,
                 enable_ble, ble_clients, ble_chan, ble_seen, ble_uuid>>

\* BLENode._connect_to_peer(peer): node n connects as GATT central to q
BleConnect(n, q) ==
  /\ n # q
  /\ enable_ble[n] /\ enable_ble[q]
  /\ q \notin ble_clients[n]
  /\ ble_clients' = [ble_clients EXCEPT ![n] = @ \cup {q}]
  /\ UNCHANGED <<peer_writers, chan, seen_messages, handled, published,
                 messages_received, enable_ble, ble_chan, ble_seen, ble_uuid>>

\* a GATT write reaches node n: DisasterService.message_tx setter ->
\* BLENode._handle_incoming_message -> on_ble_message of P2PNode._start_ble
BleIngest(n) ==
  /\ ble_chan[n] # <<>>
  /\ LET message == Head(ble_chan[n])
     IN /\ ble_chan' = [ble_chan EXCEPT ![n] = Tail(@)]
        /\ IF message.message_id \in ble_seen[n]
             THEN UNCHANGED <<ble_seen, handled>>
             ELSE /\ Len(handled[n]) < MaxHandled
                  /\ \E kept \in Trimmed(ble_seen[n] \cup {message.message_id},
                                         BLE_SEEN_CAP, BLE_SEEN_KEEP) :
                       ble_seen' = [ble_seen EXCEPT ![n] = kept]
                  /\ handled' = [handled EXCEPT ![n] = Append(@, message.payload)]
  /\ UNCHANGED <<peer_writers, chan, seen_messages, published,
                 messages_received, enable_ble, ble_clients, ble_uuid>>

\* no _broadcast is in progress
NoBroadcast == [pc |-> "idle", todo |-> {}, size |-> 0, failed |-> {}, wrote |-> {},
                gone |-> {}, message |-> "none"]

\* stop() was not called
NoStop == [pc |-> "idle", todo |-> {}, size |-> 0, calls |-> 0]

\* no datagram was received
NoBeacon == [node |-> "none", node_id |-> "none"]

\* P2PNode.__init__ of every node, and start() of the nodes of started; ble
\* says which nodes run a BLENode and writers which connections exist already
InitNetFrom(ble, writers, started) ==
  /\ peer_writers = writers
  /\ chan = [l \in Links |-> <<>>]
  /\ seen_messages = [n \in Nodes |-> {}]
  /\ handled = [n \in Nodes |-> <<>>]
  /\ published = [n \in Nodes |-> <<>>]
  /\ messages_received = [n \in Nodes |-> 0]
  /\ enable_ble = [n \in Nodes |-> n \in ble]
  /\ ble_clients = [n \in Nodes |-> {}]
  /\ ble_chan = [n \in Nodes |-> <<>>]
  /\ ble_seen = [n \in Nodes |-> {}]
  /\ ble_uuid = 0
  /\ connected_peers = writers
  /\ peers = writers
  /\ running = [n \in Nodes |-> n \in started]
  /\ sock = [l \in Links |-> IF l[2] \in writers[l[1]] THEN "open" ELSE "none"]
  /\ dialing = [n \in Nodes |-> {}]
  /\ bcast = [n \in Nodes |-> NoBroadcast]
  /\ stop_st = [n \in Nodes |-> NoStop]
  /\ last_beacon = NoBeacon
  /\ wire = <<>>
  /\ wtask = [t \in WTasks |-> 0]
  /\ inbox = [r \in Readers |-> <<>>]
  /\ rconn = [r \in Readers |-> [st |-> "open", read |-> 0]]
  /\ handler_log = <<>>
  /\ server = [n \in Nodes |-> IF n \in started THEN "listening" ELSE "none"]
  /\ tasks = [n \in Nodes |-> IF n \in started THEN "running" ELSE "none"]
  /\ ble_node = [n \in Nodes |-> IF n \in ble THEN "started" ELSE "none"]
  /\ pending_messages = [n \in Nodes |-> <<>>]
  /\ dials = [tasks |-> 0, bootstrap |-> FALSE, conns |-> <<>>, writer |-> 0]
  /\ stream = [reader |-> "none", written |-> <<>>, net |-> <<>>, buf |-> <<>>,
               at |-> "prefix", msg_length |-> 0]

\* every node constructed and started
InitNet(ble, writers) == InitNetFrom(ble, writers, Nodes)

\* MessageStorage() of the module-level message_storage
InitStorage ==
  /\ messages = <<>>
  /\ seen_ids = {}
  /\ max_messages = BigCap
  /\ total_received = 0
  /\ duplicates_rejected = 0
  /\ now = 0
  /\ next_id = 1
  /\ ret = [op |-> "none", id |-> 0, result |-> FALSE, evicted |-> 0]

\* a store that received f messages before the clock started: message i carries
\* timestamp (i * k) % 3, so k = 0 gives equal timestamps and k = 1, 2 give
\* timestamps that rise and fall along the insertion order
Prefill(f, k) == [i \in 1..f |-> HelpRequest(FirstOld + i - 1, (i * k) % 3, 2)]

NoCall == [op |-> "none", id |-> 0, result |-> FALSE, evicted |-> 0]

InitStore ==
  /\ max_messages \in (1..SmallCap) \cup {BigCap}
  /\ \E f \in {0, max_messages}, k \in 0..2 :
        /\ max_messages = BigCap => f = BigCap
        /\ f = 0 => k = 0
        /\ messages = Prefill(f, k)
        /\ seen_ids = {FirstOld + i - 1 : i \in 1..f}
        /\ total_received = f
  /\ next_id = 1
  /\ duplicates_rejected = 0
  /\ now = 0
  /\ ret = NoCall
  /\ InitNet({}, [n \in Nodes |-> {}])

StoreCall == (\E m \in StoreInputs : Store(m)) /\ UNCHANGED <<netVars, peerVars, wireVars>>

CleanupCall == CleanupExpired /\ UNCHANGED <<netVars, peerVars, wireVars>>

ClockTick == Tick /\ UNCHANGED <<netVars, peerVars, wireVars>>

NextStore ==
  \/ StoreCall
  \/ CleanupCall
  \/ ClockTick

vars == <<storeVars, netVars, peerVars, wireVars>>

SpecStore == InitStore /\ [][NextStore]_vars

(***************************************************************************)
(* The mesh: nodes A and B dial each other over TCP, publish and ingest    *)
(***************************************************************************)
NoWriters == [n \in Nodes |-> {}]

Init == InitStorage /\ InitNet({}, NoWriters)

\* a dial of the bootstrap list, which names each peer once
DialPeer ==
  /\ \E n \in MeshNodes, k \in PeerKeys :
        /\ KeyTarget(k) \in MeshNodes
        /\ \A k2 \in peer_writers[n] : KeyTarget(k2) # KeyTarget(k)
        /\ Dial(n, k)
  /\ UNCHANGED <<running, dialing, bcast, stop_st, last_beacon, lifeVars>>
  /\ UNCHANGED <<storeVars, wireVars>>

PublishCall ==
  /\ SumSent < MaxPublish
  /\ \E n \in MeshNodes : \E payload \in PublishInputs(n) : Publish(n, payload)
  /\ UNCHANGED <<storeVars, peerVars, wireVars>>

IngestFrame == (\E l \in Links : Ingest(l)) /\ UNCHANGED <<storeVars, peerVars, wireVars>>

Next ==
  \/ DialPeer
  \/ PublishCall
  \/ IngestFrame

Spec == Init /\ [][Next]_vars

(***************************************************************************)
(* The mesh with both transports: A and B run a BLENode as well            *)
(***************************************************************************)
InitBle == InitStorage /\ InitNet(MeshNodes, NoWriters)

BleConnectPeer ==
  (\E n \in MeshNodes, q \in MeshNodes : BleConnect(n, q)) /\ UNCHANGED <<storeVars, peerVars, wireVars>>

BlePublishCall ==
  /\ SumSent < MaxBlePublish
  /\ \E n \in MeshNodes : \E payload \in PublishInputs(n) : Publish(n, payload)
  /\ UNCHANGED <<storeVars, peerVars, wireVars>>

BleIngestFrame == (\E n \in MeshNodes : BleIngest(n)) /\ UNCHANGED <<storeVars, peerVars, wireVars>>

NextBle ==
  \/ DialPeer
  \/ BleConnectPeer
  \/ BlePublishCall
  \/ IngestFrame
  \/ BleIngestFrame

SpecBle == InitBle /\ [][NextBle]_vars

(***************************************************************************)
(* The chain: A dialed B (bootstrap 127.0.0.1:4002/B) and B dialed C       *)
(* (127.0.0.1:4003/C); every publish carries a fresh uuid4 id              *)
(***************************************************************************)
ChainWriters == [n \in Nodes |-> CASE n = "A" -> {"B"} [] n = "B" -> {"C"} [] OTHER -> {}]

InitChain == InitStorage /\ InitNet({}, ChainWriters)

ChainPublish ==
  /\ SumSent < MaxPublish
  /\ \E n \in Nodes : \E payload \in PublishInputs(n) :
        /\ \A q \in Nodes : \A i \in 1..Len(published[q]) : published[q][i].id # payload.id
        /\ Publish(n, payload)
  /\ UNCHANGED <<storeVars, peerVars, wireVars>>

NextChain ==
  \/ ChainPublish
  \/ IngestFrame

SpecChain == InitChain /\ [][NextChain]_vars

\* every reader task keeps running: a frame that waits on a connection is read
FairChain == SpecChain /\ WF_vars(IngestFrame)

(***************************************************************************)
(* The triangle: every node dialed the two others under their node ids, so *)
(* an envelope reaches a node directly and through a relaying peer         *)
(***************************************************************************)
TriangleWriters == [n \in Nodes |-> Nodes \ {n}]

InitTriangle == InitStorage /\ InitNet({}, TriangleWriters)

NextTriangle ==
  \/ ChainPublish
  \/ IngestFrame

SpecTriangle == InitTriangle /\ [][NextTriangle]_vars

(***************************************************************************)
(* Peer management of one node: discovery, dial, disconnect, broadcast     *)
(* across its awaits, stop()                                               *)
(***************************************************************************)
\* the variables of the gossip plane the peer management does not touch
quietVars == <<handled, messages_received, enable_ble, ble_clients,
               ble_chan, ble_seen, ble_uuid>>

\* _disconnect_peer(peer_id) for every peer_id of K: the three tables
DisconnectAll(n, K) ==
  /\ connected_peers' = [connected_peers EXCEPT ![n] = @ \ K]
  /\ peer_writers' = [peer_writers EXCEPT ![n] = @ \ K]
  /\ peers' = [peers EXCEPT ![n] = @ \ K]

\* writer.close() on the writers node n holds under the keys of K
CloseWriters(n, K) ==
  [l \in Links |->
     IF l[1] = n /\ l[2] \in (K \cap peer_writers[n]) /\ sock[l] = "open"
       THEN "closed" ELSE sock[l]]

\* the listener takes every datagram for a peer and never compares node ids
Beacon_no_self_check(n, i) ==
  /\ running[n]
  /\ last_beacon' = [node |-> n, node_id |-> i]
  /\ dialing' = IF i \notin connected_peers[n]
                  THEN [dialing EXCEPT ![n] = @ \cup {i}]
                  ELSE dialing
  /\ UNCHANGED <<netVars, connected_peers, peers, running, sock, bcast, stop_st, lifeVars>>

\* _udp_discovery_listener: a datagram with node_id i arrives at node n
Beacon(n, i) ==
  /\ running[n]
  /\ last_beacon' = [node |-> n, node_id |-> i]
  /\ dialing' = IF i # n /\ i \notin connected_peers[n]
                  THEN [dialing EXCEPT ![n] = @ \cup {i}]
                  ELSE dialing
  /\ UNCHANGED <<netVars, connected_peers, peers, running, sock, bcast, stop_st, lifeVars>>

\* a _connect_to_peer task created by the listener runs: the dial succeeds
\* and registers the peer, or fails and registers nothing
Connect(n, k) ==
  /\ k \in dialing[n]
  /\ dialing' = [dialing EXCEPT ![n] = @ \ {k}]
  /\ \/ Dial(n, k)
     \/ UNCHANGED <<netVars, connected_peers, peers, sock>>
  /\ UNCHANGED <<running, bcast, stop_st, last_beacon, lifeVars>>

\* the peer closes its end of the connection node n dialed under key k
RemoteClose(n, k) ==
  /\ sock[<<n, k>>] = "open"
  /\ sock' = [sock EXCEPT ![<<n, k>>] = "eof"]
  /\ UNCHANGED <<netVars, connected_peers, peers, running, dialing,
                 bcast, stop_st, last_beacon, lifeVars>>

\* _read_from_peer: read() returns b"" on a connection that either side
\* closed; the finally clause calls _disconnect_peer
ReaderExit(n, k) ==
  /\ sock[<<n, k>>] \in {"eof", "closed"}
  /\ DisconnectAll(n, {k})
  /\ sock' = [sock EXCEPT ![<<n, k>>] = IF @ = "eof" THEN "gone" ELSE "none"]
  /\ UNCHANGED <<chan, seen_messages, published, quietVars>>
  /\ UNCHANGED <<running, dialing, bcast, stop_st, last_beacon, lifeVars>>

\* writer.write(data); await writer.drain() on the writer under key k: true
\* when it went through.  A write to a connection that is no longer open
\* may still go into the buffer or may raise.
WriteResults(n, k) ==
  IF sock[<<n, k>>] = "open" THEN {TRUE} ELSE {TRUE, FALSE}

\* publish(topic, payload) up to the first await of _broadcast
PeerPublish(n, payload) ==
  LET message == GossipMessage(payload, n)
      W       == peer_writers[n]
      gone    == {k \in PeerKeys : <<n, k>> \in Links /\ sock[<<n, k>>] = "gone"}
  IN /\ bcast[n].pc # "iter"
     /\ Len(published[n]) < MaxPeerPublish
     /\ seen_messages' = [seen_messages EXCEPT ![n] = @ \cup {message.message_id}]
     /\ IF W = {}
          THEN /\ bcast' = [bcast EXCEPT ![n] =
                              [pc |-> "done", todo |-> {}, size |-> 0, failed |-> {},
                               wrote |-> {}, gone |-> gone, message |-> message]]
               /\ published' = [published EXCEPT ![n] = Append(@, payload)]
               /\ UNCHANGED chan
          ELSE \E k \in W : \E ok \in WriteResults(n, k) :
                 /\ chan' = IF ok THEN [chan EXCEPT ![<<n, k>>] = Append(@, message)]
                                  ELSE chan
                 /\ bcast' = [bcast EXCEPT ![n] =
                                [pc |-> "iter", todo |-> W \ {k}, size |-> Cardinality(W),
                                 failed |-> IF ok THEN {} ELSE {k},
                                 wrote |-> IF ok THEN {k} ELSE {},
                                 gone |-> gone, message |-> message]]
                 /\ UNCHANGED published
     /\ UNCHANGED <<peer_writers, quietVars>>
     /\ UNCHANGED <<connected_peers, peers, running, sock, dialing, stop_st, last_beacon, lifeVars>>

\* _broadcast resumes after an await: the iterator of _peer_writers.items()
\* raises RuntimeError when the dict changed size meanwhile; at the end of the
\* dict the peers whose write failed are disconnected and publish() returns;
\* otherwise the next writer is written to
BroadcastNext(n) ==
  LET b    == bcast[n]
      left == b.todo \cap peer_writers[n]
  IN /\ b.pc = "iter"
     /\ IF Cardinality(peer_writers[n]) # b.size
          THEN /\ bcast' = [bcast EXCEPT ![n].pc = "raised"]
               /\ UNCHANGED <<netVars, connected_peers, peers, sock>>
          ELSE IF left = {}
            THEN /\ DisconnectAll(n, b.failed)
                 /\ sock' = CloseWriters(n, b.failed)
                 /\ published' = [published EXCEPT ![n] = Append(@, b.message.payload)]
                 /\ bcast' = [bcast EXCEPT ![n].pc = "done"]
                 /\ UNCHANGED <<chan, seen_messages, quietVars>>
            ELSE \E k \in left : \E ok \in WriteResults(n, k) :
                   /\ chan' = IF ok THEN [chan EXCEPT ![<<n, k>>] = Append(@, b.message)]
                                    ELSE chan
                   /\ bcast' = [bcast EXCEPT ![n].todo = @ \ {k},
                                             ![n].failed = IF ok THEN @ ELSE @ \cup {k},
                                             ![n].wrote = IF ok THEN @ \cup {k} ELSE @]
                   /\ UNCHANGED <<peer_writers, seen_messages, published, quietVars>>
                   /\ UNCHANGED <<connected_peers, peers, sock>>
     /\ UNCHANGED <<running, dialing, stop_st, last_beacon, lifeVars>>

\* the rest of stop() after the loop over the writers: the server, when there
\* is one, is closed and the tasks of _tasks are cancelled, awaited and dropped
\* from the list; nothing else is touched
StopRest(n) ==
  /\ server' = [server EXCEPT ![n] = IF @ = "none" THEN "none" ELSE "closed"]
  /\ tasks' = [tasks EXCEPT ![n] = IF @ = "running" THEN "cancelled" ELSE @]
  /\ UNCHANGED <<ble_node, pending_messages, stream, dials>>

\* stop() up to its first await: _running = False, then the loop over
\* _peer_writers.values() closes the first writer and waits for it; with no
\* writer the call goes through to its end
StopBegin(n) ==
  LET W == peer_writers[n]
  IN /\ stop_st[n].pc # "closing"
     /\ stop_st[n].calls < MaxStop
     /\ running' = [running EXCEPT ![n] = FALSE]
     /\ IF W = {}
          THEN /\ stop_st' = [stop_st EXCEPT ![n] =
                                [pc |-> "done", todo |-> {}, size |-> 0, calls |-> @.calls + 1]]
               /\ StopRest(n)
               /\ UNCHANGED sock
          ELSE \E k \in W :
                 /\ sock' = CloseWriters(n, {k})
                 /\ stop_st' = [stop_st EXCEPT ![n] =
                                  [pc |-> "closing", todo |-> W \ {k}, size |-> Cardinality(W),
                                   calls |-> @.calls + 1]]
                 /\ UNCHANGED lifeVars
     /\ UNCHANGED <<netVars, connected_peers, peers, dialing, bcast, last_beacon>>

\* stop() resumes after wait_closed(): the iterator raises RuntimeError when
\* the dict changed size meanwhile; at the end of the dict
\* _peer_writers.clear() runs and the call goes through to its end; otherwise
\* the next writer is closed
StopNext(n) ==
  LET st   == stop_st[n]
      left == st.todo \cap peer_writers[n]
  IN /\ st.pc = "closing"
     /\ IF Cardinality(peer_writers[n]) # st.size
          THEN /\ stop_st' = [stop_st EXCEPT ![n].pc = "raised"]
               /\ UNCHANGED <<peer_writers, sock, lifeVars>>
          ELSE IF left = {}
            THEN /\ peer_writers' = [peer_writers EXCEPT ![n] = {}]
                 /\ stop_st' = [stop_st EXCEPT ![n].pc = "done"]
                 /\ StopRest(n)
                 /\ UNCHANGED sock
            ELSE \E k \in left :
                   /\ sock' = CloseWriters(n, {k})
                   /\ stop_st' = [stop_st EXCEPT ![n].todo = @ \ {k}]
                   /\ UNCHANGED <<peer_writers, lifeVars>>
     /\ UNCHANGED <<chan, seen_messages, published, quietVars>>
     /\ UNCHANGED <<connected_peers, peers, running, dialing, bcast, last_beacon>>

\* the node whose peer management is explored
Self == "A"

InitPeers == InitStorage /\ InitNet({}, NoWriters)

BeaconArrives == (\E i \in Nodes : Beacon(Self, i)) /\ UNCHANGED <<storeVars, wireVars>>

ConnectTask == (\E k \in PeerKeys : Connect(Self, k)) /\ UNCHANGED <<storeVars, wireVars>>

PeerCloses == (\E k \in PeerKeys : <<Self, k>> \in Links /\ RemoteClose(Self, k))
                /\ UNCHANGED <<storeVars, wireVars>>

ReaderReturns == (\E k \in PeerKeys : <<Self, k>> \in Links /\ ReaderExit(Self, k))
                   /\ UNCHANGED <<storeVars, wireVars>>

\* every publish of the node carries a new uuid4 id
FreshInputs(n) == {p \in PublishInputs(n) : p.id \notin seen_messages[n]}

FirstFresh(n) ==
  {p \in FreshInputs(n) : \A q \in FreshInputs(n) : IdRank(p.id) <= IdRank(q.id)}

PeerPublishCall ==
  (\E payload \in FirstFresh(Self) : PeerPublish(Self, payload)) /\ UNCHANGED <<storeVars, wireVars>>

BroadcastResumes == BroadcastNext(Self) /\ UNCHANGED <<storeVars, wireVars>>

\* one stop() call, on the running node
StopCall ==
  /\ stop_st[Self].pc = "idle" /\ running[Self]
  /\ StopBegin(Self)
  /\ UNCHANGED <<storeVars, wireVars>>

StopResumes == StopNext(Self) /\ UNCHANGED <<storeVars, wireVars>>

NextPeers ==
  \/ BeaconArrives
  \/ ConnectTask
  \/ PeerCloses
  \/ ReaderReturns
  \/ PeerPublishCall
  \/ BroadcastResumes
  \/ StopCall
  \/ StopResumes

SpecPeers == InitPeers /\ [][NextPeers]_vars

(***************************************************************************)
(* stop() called once and again, on a started and on a never started node  *)
(***************************************************************************)

\* the node was constructed only, or was started, with or without BLE, and
\* has dialed none, one or two peers
InitStop ==
  /\ InitStorage
  /\ \E started \in {{}, {Self}} : \E ble \in SUBSET started : \E W \in SUBSET {"B", "C"} :
        /\ started = {} => W = {}
        /\ InitNetFrom(ble, [n \in Nodes |-> IF n = Self THEN W ELSE {}], started)

StopAnyCall == StopBegin(Self) /\ UNCHANGED <<storeVars, wireVars>>

NextStop ==
  \/ StopAnyCall
  \/ StopResumes
  \/ ReaderReturns
  \/ PeerCloses

SpecStop == InitStop /\ [][NextStop]_vars

(***************************************************************************)
(* One peer socket at the level of the parts written to it                 *)
(***************************************************************************)

bleVars == <<enable_ble, ble_clients, ble_chan, ble_seen, ble_uuid>>

\* the message each writing task sends: two publish() calls of the node and
\* one message of C that _handle_incoming_message forwards
TaskMessage(t) ==
  CASE t = "publish-1" -> GossipMessage([id |-> "req-1", sender_id |-> Self, timestamp |-> 1], Self)
    [] t = "publish-2" -> GossipMessage([id |-> "req-2", sender_id |-> Self, timestamp |-> 2], Self)
    [] OTHER -> GossipMessage([id |-> "req-3", sender_id |-> "C", timestamp |-> 1], "C")

IsPublish(t) == t \in {"publish-1", "publish-2"}

\* the peer at the other end of the socket
WirePeer == "B"

length_prefix(message) == [part |-> "prefix", of |-> message.message_id]
msg_bytes(message) == [part |-> "body", of |-> message.message_id]

\* a sender that hands the prefix and the body to the transport in two write()
\* calls with an await between them
Chunks_two_writes(message) == << <<length_prefix(message)>>, <<msg_bytes(message)>> >>

\* the write() calls made for one frame and what each hands to the transport:
\* one call, writer.write(length_prefix + msg_bytes)
Chunks(message) == << <<length_prefix(message), msg_bytes(message)>> >>

\* a task runs to its next write() call and makes it; what the handler does
\* before its first write happens in the same step
WriteCall(t) ==
  LET message == TaskMessage(t)
  IN /\ wtask[t] < Len(Chunks(message))
     /\ IsPublish(t) \/ WirePeer # message.sender_id
     /\ wire' = wire \o Chunks(message)[wtask[t] + 1]
     /\ wtask' = [wtask EXCEPT ![t] = @ + 1]
     /\ IF wtask[t] # 0
          THEN UNCHANGED <<seen_messages, handled, messages_received>>
          ELSE IF IsPublish(t)
            THEN /\ seen_messages' = [seen_messages EXCEPT ![Self] = @ \cup {message.message_id}]
                 /\ UNCHANGED <<handled, messages_received>>
            ELSE /\ \E kept \in Trimmed(seen_messages[Self] \cup {message.message_id},
                                        SEEN_CAP, SEEN_KEEP) :
                      seen_messages' = [seen_messages EXCEPT ![Self] = kept]
                 /\ messages_received' = [messages_received EXCEPT ![Self] = @ + 1]
                 /\ handled' = [handled EXCEPT ![Self] = Append(@, message.payload)]
     /\ UNCHANGED <<peer_writers, chan, published, bleVars, inbox, rconn, handler_log>>

\* await writer.drain() returns after the task's last write(); publish() then
\* counts the message
Drained(t) ==
  LET message == TaskMessage(t)
  IN /\ wtask[t] = Len(Chunks(message))
     /\ wtask' = [wtask EXCEPT ![t] = @ + 1]
     /\ published' = [published EXCEPT ![Self] =
                        IF IsPublish(t) THEN Append(@, message.payload) ELSE @]
     /\ UNCHANGED <<peer_writers, chan, seen_messages, handled, messages_received,
                    bleVars, wire, inbox, rconn, handler_log>>

WireWriters == [n \in Nodes |-> IF n = Self THEN {WirePeer} ELSE {}]

InitWire == InitStorage /\ InitNet({}, WireWriters)

TaskWrites ==
  /\ \E t \in WTasks : WriteCall(t)
  /\ UNCHANGED <<storeVars, peerVars>>

TaskDrained ==
  /\ \E t \in WTasks : Drained(t)
  /\ UNCHANGED <<storeVars, peerVars>>

NextWire ==
  \/ TaskWrites
  \/ TaskDrained

SpecWire == InitWire /\ [][NextWire]_vars


(***************************************************************************)
(* The two frame readers of a node and the declared length of a frame      *)
(***************************************************************************)

\* MESSAGE_BUFFER_SIZE = 65535
MESSAGE_BUFFER_SIZE == 65535

\* the declared lengths a peer puts in front of a frame: below, at and above
\* the limit
FrameLengths == {MESSAGE_BUFFER_SIZE - 1, MESSAGE_BUFFER_SIZE, MESSAGE_BUFFER_SIZE + 1}

\* the peer at the other end: the node dialed B, and C connected to the node
ReaderPeer(r) == IF r = "dialed" THEN "B" ELSE "C"

\* the id of the j-th message a peer sends: C counts up, B counts down, so
\* that the two streams also carry messages the node has already seen
FrameId(r, j) ==
  CHOOSE i \in MessageIds :
    IdRank(i) = IF r = "dialed" THEN Cardinality(MessageIds) + 1 - j ELSE j

\* the keys of the JSON object GossipMessage.to_json writes
Fields == {"topic", "payload", "sender_id", "message_id", "timestamp"}

\* the keys from_json reads with d[...]; timestamp is read with d.get
RequiredFields == Fields \ {"timestamp"}

\* the body of a frame: text that is not JSON, or a JSON object with some keys
NotJson == [json |-> FALSE, keys |-> {}]

JsonObject(keys) == [json |-> TRUE, keys |-> keys]

\* the bodies a peer may send: not JSON, the full object, the object with one
\* key left out
Bodies == {NotJson} \cup {JsonObject(Fields \ D) : D \in {{}} \cup {{f} : f \in Fields}}

\* GossipMessage.from_json(body): the exception it raises, or "ok"
from_json(body) ==
  IF ~body.json THEN "JSONDecodeError"
  ELSE IF ~(RequiredFields \subseteq body.keys) THEN "KeyError"
  ELSE "ok"

\* the try around from_json and _handle_incoming_message: except
\* json.JSONDecodeError in _handle_peer_connection, a bare except in
\* _read_from_peer
caught(r, exc) == r = "dialed" \/ exc = "JSONDecodeError"

\* what a peer sends: a complete message with a declared length around the
\* limit, or a short frame with any body
FrameInputs ==
  {<<len, JsonObject(Fields)>> : len \in FrameLengths}
    \cup {<<MESSAGE_BUFFER_SIZE - 1, body>> : body \in Bodies}

\* the peer of reader r writes one more frame with declared length len
PeerWrites(r, len, body) ==
  LET j == Len(inbox[r]) + 1
      payload == [id |-> FrameId(r, j), sender_id |-> ReaderPeer(r), timestamp |-> j]
  IN /\ rconn[r].st = "open"
     /\ j <= MaxFrames
     /\ j <= Cardinality(MessageIds)
     /\ inbox' = [inbox EXCEPT ![r] =
                    Append(@, [length |-> len, body |-> body,
                               message |-> GossipMessage(payload, ReaderPeer(r))])]
     /\ UNCHANGED <<netVars, wire, wtask, rconn, handler_log>>

\* _handle_peer_connection tests msg_length > MESSAGE_BUFFER_SIZE;
\* _read_from_peer has no such test
has_length_check(r) == r = "accepted"

\* one turn of a reader's loop on the next frame of its connection: an
\* exception that the inner try does not catch leaves the loop, and the
\* finally clause closes the connection
ReadFrame(r) ==
  LET msg == inbox[r][rconn[r].read + 1]
      exc == from_json(msg.body)
  IN /\ running[Self]
     /\ r = "dialed" => ReaderPeer(r) \in connected_peers[Self]
     /\ rconn[r].st = "open"
     /\ rconn[r].read < Len(inbox[r])
     /\ IF has_length_check(r) /\ msg.length > MESSAGE_BUFFER_SIZE
          THEN /\ rconn' = [rconn EXCEPT ![r].st = "closed"]
               /\ UNCHANGED <<chan, seen_messages, handled, messages_received>>
          ELSE IF exc = "ok"
            THEN /\ rconn' = [rconn EXCEPT ![r].read = @ + 1]
                 /\ HandleIncoming(Self, msg.message, chan)
            ELSE /\ rconn' = IF caught(r, exc) THEN [rconn EXCEPT ![r].read = @ + 1]
                                               ELSE [rconn EXCEPT ![r].st = "closed"]
                 /\ UNCHANGED <<chan, seen_messages, handled, messages_received>>
     /\ UNCHANGED <<peer_writers, published, bleVars, wire, wtask, inbox, handler_log>>

InitFrames == InitStorage /\ InitNet({}, WireWriters)

PeerSendsFrame ==
  /\ \E r \in Readers : \E f \in FrameInputs : PeerWrites(r, f[1], f[2])
  /\ UNCHANGED <<storeVars, peerVars>>

ReaderTurn ==
  /\ \E r \in Readers : ReadFrame(r)
  /\ UNCHANGED <<storeVars, peerVars>>

NextFrames ==
  \/ PeerSendsFrame
  \/ ReaderTurn

SpecFrames == InitFrames /\ [][NextFrames]_vars

(***************************************************************************)
(* Dials of one node to one peer id: the discovery listener and the        *)
(* bootstrap list create _connect_to_peer tasks, every task that succeeds  *)
(* opens a connection of its own with a reader task of its own, and the    *)
(* registry holds one writer per peer id                                   *)
(***************************************************************************)
\* the peer id all the dials go to
DialedPeer == "B"

\* the variables the dials leave alone
dialFrame == <<storeVars, chan, seen_messages, handled, published, messages_received,
               bleVars, running, sock, dialing, bcast, stop_st, last_beacon, server,
               tasks, ble_node, pending_messages, stream, wireVars>>

\* the connections of state st: "open", "eof" (the peer closed it, the reader
\* task has not run yet), "closed" (its writer was closed by the node, the
\* reader task has not run yet) or "ended" (the reader task returned)
ConnsIn(st) == {i \in 1..Len(dials.conns) : dials.conns[i] = st}

\* _udp_discovery_listener: a beacon of the peer arrives; a task is created
\* when the peer id is not in _connected_peers
BeaconDial ==
  /\ running[Self]
  /\ DialedPeer \notin connected_peers[Self]
  /\ dials.tasks + Len(dials.conns) < MaxConns
  /\ dials' = [dials EXCEPT !.tasks = @ + 1]
  /\ UNCHANGED <<peer_writers, connected_peers, peers, dialFrame>>

\* start(): a task is created for the bootstrap peer, whatever the registry holds
BootstrapDial ==
  /\ running[Self]
  /\ ~dials.bootstrap
  /\ dials.tasks + Len(dials.conns) < MaxConns
  /\ dials' = [dials EXCEPT !.tasks = @ + 1, !.bootstrap = TRUE]
  /\ UNCHANGED <<peer_writers, connected_peers, peers, dialFrame>>

\* a _connect_to_peer task runs: open_connection fails and nothing is
\* registered, or it succeeds: _peer_writers[peer_id] = writer,
\* _connected_peers.add(peer_id), _peers[peer_id] = PeerInfo, and a
\* _read_from_peer task is created for the new connection
DialCompletes ==
  /\ dials.tasks > 0
  /\ \/ /\ dials' = [dials EXCEPT !.tasks = @ - 1]
        /\ UNCHANGED <<peer_writers, connected_peers, peers>>
     \/ /\ dials' = [dials EXCEPT !.tasks = @ - 1,
                                   !.conns = Append(@, "open"),
                                   !.writer = Len(dials.conns) + 1]
        /\ peer_writers' = [peer_writers EXCEPT ![Self] = @ \cup {DialedPeer}]
        /\ connected_peers' = [connected_peers EXCEPT ![Self] = @ \cup {DialedPeer}]
        /\ peers' = [peers EXCEPT ![Self] = @ \cup {DialedPeer}]
  /\ UNCHANGED dialFrame

\* the peer closes its end of connection i
DialedPeerCloses ==
  /\ \E i \in ConnsIn("open") : dials' = [dials EXCEPT !.conns[i] = "eof"]
  /\ UNCHANGED <<peer_writers, connected_peers, peers, dialFrame>>

\* the _read_from_peer task of connection i returns: read() gave b"", and the
\* finally clause calls _disconnect_peer(peer_id), which closes and deletes
\* the writer _peer_writers holds under the peer id
DialedReaderEnds ==
  /\ \E i \in ConnsIn("eof") \cup ConnsIn("closed") :
        LET w == dials.writer
            closing == IF w # 0 /\ w # i /\ dials.conns[w] = "open" THEN {w} ELSE {}
        IN dials' = [dials EXCEPT
                       !.conns = [j \in 1..Len(@) |->
                                    IF j = i THEN "ended"
                                    ELSE IF j \in closing THEN "closed" ELSE @[j]],
                       !.writer = 0]
  /\ DisconnectAll(Self, {DialedPeer})
  /\ UNCHANGED dialFrame

InitDials == InitStorage /\ InitNet({}, NoWriters)

NextDials ==
  \/ BeaconDial
  \/ BootstrapDial
  \/ DialCompletes
  \/ DialedPeerCloses
  \/ DialedReaderEnds

SpecDials == InitDials /\ [][NextDials]_vars

(***************************************************************************)
(* The byte stream of one connection: the peer writes frames, TCP hands    *)
(* the bytes to the StreamReader in segments of any size, and the reader's *)
(* loop takes a prefix and a body with reader.read(n)                      *)
(***************************************************************************)
\* the length prefix: len(msg_bytes).to_bytes(4, 'big'), read with read(4)
PrefixLen == 4

\* int.from_bytes(data, 'big')
from_bytes(data) ==
  LET F[k \in 0..Len(data)] == IF k = 0 THEN 0 ELSE F[k-1] * 256 + data[k]
  IN F[Len(data)]

\* n.to_bytes(4, 'big')
to_bytes(n) ==
  [k \in 1..PrefixLen |-> (n \div (256 ^ (PrefixLen - k))) % 256]

\* the j-th envelope the peer sends
StreamMessage(j) ==
  GossipMessage([id |-> FrameId("accepted", j), sender_id |-> "C", timestamp |-> j], "C")

\* message.to_json().encode('utf-8') of the j-th envelope: BodyLen bytes of
\* text, different for different envelopes
Encode(j) == [k \in 1..BodyLen |-> 64 + j]

\* json.loads accepts the bytes: they are the whole body of an envelope
IsJson(data) == \E j \in 1..MaxFrames : data = Encode(j)

\* GossipMessage.from_json(msg_data.decode('utf-8')) of bytes that parse
Decode(data) == StreamMessage(CHOOSE j \in 1..MaxFrames : data = Encode(j))

\* StreamReader.read(n) with a non-empty buffer: at most n of the buffered bytes
ReadUpTo(buf, n) == SubSeq(buf, 1, IF n < Len(buf) THEN n ELSE Len(buf))

\* the buffer after data was taken from its front
After(buf, data) == SubSeq(buf, Len(data) + 1, Len(buf))

\* a connection to the node is established: accepted by the server
\* (_handle_peer_connection) or dialed (_read_from_peer)
OpenStream ==
  /\ stream.reader = "none"
  /\ \E r \in Readers : stream' = [stream EXCEPT !.reader = r]
  /\ UNCHANGED <<storeVars, netVars, connected_peers, peers, running, sock, dialing,
                 bcast, stop_st, last_beacon, server, tasks, ble_node,
                 pending_messages, dials, wireVars>>

\* the peer writes its next frame: writer.write(length_prefix + msg_bytes)
StreamWrite ==
  /\ stream.reader # "none"
  /\ stream.at # "closed"
  /\ Len(stream.written) < MaxFrames
  /\ Len(stream.written) < Cardinality(MessageIds)
  /\ LET j == Len(stream.written) + 1
     IN stream' = [stream EXCEPT !.written = Append(@, StreamMessage(j)),
                                 !.net = @ \o to_bytes(BodyLen) \o Encode(j)]
  /\ UNCHANGED <<storeVars, netVars, connected_peers, peers, running, sock, dialing,
                 bcast, stop_st, last_beacon, server, tasks, ble_node,
                 pending_messages, dials, wireVars>>

\* a TCP segment with the next k bytes arrives: feed_data
SegmentArrives ==
  /\ \E k \in 1..Len(stream.net) :
        stream' = [stream EXCEPT !.buf = @ \o SubSeq(stream.net, 1, k),
                                 !.net = SubSeq(@, k + 1, Len(@))]
  /\ UNCHANGED <<storeVars, netVars, connected_peers, peers, running, sock, dialing,
                 bcast, stop_st, last_beacon, server, tasks, ble_node,
                 pending_messages, dials, wireVars>>

\* the first await of the loop: length_data = await reader.read(4),
\* msg_length = int.from_bytes(...); _handle_peer_connection leaves the loop
\* above MESSAGE_BUFFER_SIZE
ReadLength ==
  LET length_data == ReadUpTo(stream.buf, PrefixLen)
      msg_length == from_bytes(length_data)
  IN /\ stream.reader # "none"
     /\ stream.at = "prefix"
     /\ running[Self]
     /\ stream.buf # <<>>
     /\ stream' =
          IF has_length_check(stream.reader) /\ msg_length > MESSAGE_BUFFER_SIZE
            THEN [stream EXCEPT !.at = "closed", !.buf = After(@, length_data)]
            ELSE [stream EXCEPT !.at = "body", !.msg_length = msg_length,
                                !.buf = After(@, length_data)]
     /\ UNCHANGED <<storeVars, netVars, connected_peers, peers, running, sock, dialing,
                    bcast, stop_st, last_beacon, server, tasks, ble_node,
                    pending_messages, dials, wireVars>>

\* the second await of the loop: msg_data = await reader.read(msg_length);
\* read(0) returns b"" at once and the loop ends; a body that does not parse
\* is dropped and the loop goes on
ReadBody ==
  LET msg_data == ReadUpTo(stream.buf, stream.msg_length)
      message == Decode(msg_data)
  IN /\ stream.at = "body"
     /\ stream.msg_length = 0 \/ stream.buf # <<>>
     /\ IF stream.msg_length = 0
          THEN /\ stream' = [stream EXCEPT !.at = "closed"]
               /\ UNCHANGED <<chan, seen_messages, handled, messages_received>>
          ELSE /\ stream' = [stream EXCEPT !.at = "prefix", !.buf = After(@, msg_data)]
               /\ IF IsJson(msg_data)
                    THEN HandleIncoming(Self, message, chan)
                    ELSE UNCHANGED <<chan, seen_messages, handled, messages_received>>
     /\ UNCHANGED <<storeVars, peer_writers, published, bleVars, connected_peers, peers,
                    running, sock, dialing, bcast, stop_st, last_beacon, server, tasks,
                    ble_node, pending_messages, dials, wireVars>>

InitStream == InitStorage /\ InitNet({}, WireWriters)

NextStream ==
  \/ OpenStream
  \/ StreamWrite
  \/ SegmentArrives
  \/ ReadLength
  \/ ReadBody

SpecStream == InitStream /\ [][NextStream]_vars

(***************************************************************************)
(* Delivery to the subscribed handlers, some of which raise                *)
(***************************************************************************)

\* _subscriptions[topic]: the handlers of the topic in subscription order
Handlers == <<"h1", "h2", "h3">>

\* for handler in self._subscriptions[message.topic], with the try/except
\* around each call (catch) or without it: the handlers called, and whether
\* the loop ran to its end or an exception left it
RECURSIVE CallHandlers(_, _, _)
CallHandlers(hs, raising, catch) ==
  IF hs = <<>> THEN [calls |-> <<>>, completed |-> TRUE]
  ELSE IF Head(hs) \in raising /\ ~catch
    THEN [calls |-> <<Head(hs)>>, completed |-> FALSE]
    ELSE LET rest == CallHandlers(Tail(hs), raising, catch)
         IN [calls |-> <<Head(hs)>> \o rest.calls, completed |-> rest.completed]

\* the delivery loop without the try/except around handler(message.payload)
Deliver_no_catch(hs, raising) == CallHandlers(hs, raising, FALSE)

\* the delivery loop of _handle_incoming_message: except Exception around
\* every call
Deliver(hs, raising) == CallHandlers(hs, raising, TRUE)

\* _handle_incoming_message(message) on node n when the handlers of raising
\* raise an Exception
HandleWithHandlers(n, message, raising) ==
  LET r == Deliver(Handlers, raising)
  IN /\ handler_log' =
          IF message.message_id \in seen_messages[n] THEN handler_log
          ELSE Append(handler_log, [message |-> message, calls |-> r.calls,
                                    raising |-> raising])
     /\ IF r.completed \/ message.message_id \in seen_messages[n]
          THEN HandleIncoming(n, message, chan)
          ELSE /\ \E kept \in Trimmed(seen_messages[n] \cup {message.message_id},
                                      SEEN_CAP, SEEN_KEEP) :
                    seen_messages' = [seen_messages EXCEPT ![n] = kept]
               /\ messages_received' = [messages_received EXCEPT ![n] = @ + 1]
               /\ UNCHANGED <<chan, handled>>
     /\ UNCHANGED <<peer_writers, published, bleVars, wire, wtask, inbox, rconn>>

\* the node has dialed B and C
HandlerWriters == [n \in Nodes |-> IF n = Self THEN {"B", "C"} ELSE {}]

InitHandlers == InitStorage /\ InitNet({}, HandlerWriters)

\* a message of C arrives at the node
MessageArrives ==
  /\ \E i \in MessageIds : \E raising \in SUBSET {Handlers[k] : k \in 1..Len(Handlers)} :
        HandleWithHandlers(Self, GossipMessage([id |-> i, sender_id |-> "C", timestamp |-> 1], "C"),
                           raising)
  /\ UNCHANGED <<storeVars, peerVars>>

NextHandlers == MessageArrives

SpecHandlers == InitHandlers /\ [][NextHandlers]_vars

(***************************************************************************)
(* Writes to peers that have closed their connection                       *)
(***************************************************************************)

\* _handle_incoming_message of a message not seen before, on a node whose
\* peers may have closed: a write to a connection that is no longer open may
\* raise, and the forwarding loop passes over it (except: pass)
ForwardIncoming(n, message) ==
  LET targets == peer_writers[n] \ {message.sender_id}
  IN /\ message.message_id \notin seen_messages[n]
     /\ Len(handled[n]) < MaxHandled
     /\ \A k \in targets : Len(chan[<<n, k>>]) < MaxQueue
     /\ \E kept \in Trimmed(seen_messages[n] \cup {message.message_id},
                            SEEN_CAP, SEEN_KEEP) :
          seen_messages' = [seen_messages EXCEPT ![n] = kept]
     /\ messages_received' = [messages_received EXCEPT ![n] = @ + 1]
     /\ handled' = [handled EXCEPT ![n] = Append(@, message.payload)]
     /\ \E ok \in [targets -> BOOLEAN] :
          /\ \A k \in targets : ok[k] \in WriteResults(n, k)
          /\ chan' = [l \in Links |->
                        IF l[1] = n /\ l[2] \in targets /\ ok[l[2]]
                          THEN Append(chan[l], message)
                          ELSE chan[l]]
     /\ UNCHANGED <<peer_writers, published, bleVars>>
     /\ UNCHANGED peerVars

InitWriteFail == InitStorage /\ InitNet({}, HandlerWriters)

\* a message published by a node the forwarding node has no connection to
ForwardArrives ==
  /\ \E i \in MessageIds :
        ForwardIncoming(Self, GossipMessage([id |-> i, sender_id |-> "D", timestamp |-> 1], "D"))
  /\ UNCHANGED <<storeVars, wireVars>>

NextWriteFail ==
  \/ PeerCloses
  \/ ReaderReturns
  \/ PeerPublishCall
  \/ BroadcastResumes
  \/ ForwardArrives

SpecWriteFail == InitWriteFail /\ [][NextWriteFail]_vars

(***************************************************************************)
(* The ring: A dialed B, B dialed C, C dialed A. What travels on a         *)
(* connection is the JSON object of to_json; a reader rebuilds the         *)
(* GossipMessage with from_json and the forward loop writes to_json of it  *)
(***************************************************************************)
RingWriters == [n \in Nodes |-> CASE n = "A" -> {"B"} [] n = "B" -> {"C"} [] OTHER -> {"A"}]

InitRing == InitStorage /\ InitNet({}, RingWriters)

\* GossipTopic.HELP_REQUESTS
HELP_REQUESTS == "disaster/help-requests"

\* to_json that writes the time of writing as the timestamp
to_json_restamped(message) ==
  [topic |-> message.topic, payload |-> message.payload, sender_id |-> message.sender_id,
   message_id |-> message.message_id, timestamp |-> now + 1]

\* GossipMessage.to_json: the object with the five fields of the message
to_json(message) ==
  [topic |-> message.topic, payload |-> message.payload, sender_id |-> message.sender_id,
   message_id |-> message.message_id, timestamp |-> message.timestamp]

\* the JSON object d without its timestamp
without_timestamp(d) ==
  [topic |-> d.topic, payload |-> d.payload, sender_id |-> d.sender_id,
   message_id |-> d.message_id]

\* GossipMessage.from_json on an object with the four required keys:
\* d.get("timestamp", datetime.utcnow().timestamp())
from_json_message(d) ==
  [topic |-> d.topic, payload |-> d.payload, sender_id |-> d.sender_id,
   message_id |-> d.message_id,
   timestamp |-> IF "timestamp" \in DOMAIN d THEN d.timestamp ELSE now]

\* publish(topic, payload) on the ring: the message gets the clock reading as
\* its timestamp and its JSON object is written to every writer; the ids are
\* fresh and drawn in order
RingPublish ==
  /\ SumSent < MaxRingPublish
  /\ \E n \in Nodes : \E payload \in PublishInputs(n) :
        LET message == [topic |-> HELP_REQUESTS, payload |-> payload, sender_id |-> n,
                        message_id |-> payload.id, timestamp |-> now]
        IN /\ IdRank(payload.id) = SumSent + 1
           /\ \A q \in Nodes : payload.id \notin seen_messages[q]
           /\ \A k \in peer_writers[n] : Len(chan[<<n, k>>]) < MaxQueue
           /\ seen_messages' = [seen_messages EXCEPT ![n] = @ \cup {message.message_id}]
           /\ chan' = WriteTo(n, to_json(message), NoKey)
           /\ published' = [published EXCEPT ![n] = Append(@, payload)]
  /\ UNCHANGED <<peer_writers, handled, messages_received, bleVars,
                 storeVars, peerVars, wireVars>>

\* a client that is not this program writes an envelope without a timestamp
\* on the connection from A to B, naming itself as the sender
ClientSends ==
  /\ \A l \in Links : chan[l] = <<>>
  /\ \E payload \in {[id |-> "req-3", sender_id |-> "D", timestamp |-> now]} :
        /\ \A q \in Nodes : payload.id \notin seen_messages[q]
        /\ \A q \in Nodes : \A i \in 1..Len(published[q]) : published[q][i].id # payload.id
        /\ chan' = [chan EXCEPT ![<<"A", "B">>] =
                      Append(@, [topic |-> HELP_REQUESTS, payload |-> payload,
                                 sender_id |-> "D", message_id |-> payload.id])]
  /\ UNCHANGED <<peer_writers, seen_messages, handled, published, messages_received,
                 bleVars, storeVars, peerVars, wireVars>>

\* a reader takes the next frame of connection l: from_json, then
\* _handle_incoming_message, whose forward loop writes to_json of the message
RingIngest ==
  /\ \E l \in Links :
        /\ chan[l] # <<>>
        /\ LET n == KeyTarget(l[2])
               message == from_json_message(Head(chan[l]))
               rest == [chan EXCEPT ![l] = Tail(@)]
           IN IF message.message_id \in seen_messages[n]
                THEN /\ chan' = rest
                     /\ UNCHANGED <<seen_messages, handled, messages_received>>
                ELSE /\ Len(handled[n]) < MaxHandled
                     /\ \A k \in peer_writers[n] : Len(chan[<<n, k>>]) < MaxQueue
                     /\ \E kept \in Trimmed(seen_messages[n] \cup {message.message_id},
                                            SEEN_CAP, SEEN_KEEP) :
                          seen_messages' = [seen_messages EXCEPT ![n] = kept]
                     /\ messages_received' = [messages_received EXCEPT ![n] = @ + 1]
                     /\ handled' = [handled EXCEPT ![n] = Append(@, message.payload)]
                     /\ chan' = [x \in Links |->
                                   IF x[1] = n /\ x[2] \in peer_writers[n]
                                        /\ x[2] # message.sender_id
                                     THEN Append(rest[x], to_json(message))
                                     ELSE rest[x]]
  /\ UNCHANGED <<peer_writers, published, bleVars, storeVars, peerVars, wireVars>>

NextRing ==
  \/ RingPublish
  \/ ClientSends
  \/ RingIngest
  \/ ClockTick

SpecRing == InitRing /\ [][NextRing]_vars

(***************************************************************************)
(* A node that dialed B through the bootstrap entry 127.0.0.1:4002, with   *)
(* no peer id: beacons arrive, the dials they start run, B sends envelopes *)
(* and connections end                                                     *)
(***************************************************************************)
EndpointWriters == [n \in Nodes |-> IF n = Self THEN {Endpoint["B"]} ELSE {}]

InitEndpoint == InitStorage /\ InitNet({}, EndpointWriters)

\* the reader of the connection dialed under key k reads an envelope that its
\* peer published
DialedEnvelope ==
  /\ \E k \in peer_writers[Self], i \in MessageIds :
        /\ sock[<<Self, k>>] = "open"
        /\ HandleIncoming(Self, GossipMessage([id |-> i, sender_id |-> KeyTarget(k),
                                               timestamp |-> 1], KeyTarget(k)), chan)
  /\ UNCHANGED <<peer_writers, published, bleVars, storeVars, peerVars, wireVars>>

NextEndpoint ==
  \/ BeaconArrives
  \/ ConnectTask
  \/ PeerCloses
  \/ ReaderReturns
  \/ DialedEnvelope

SpecEndpoint == InitEndpoint /\ [][NextEndpoint]_vars

(***************************************************************************)
(* The cleanup loop of a node that dialed B and C at clock 0: messages are *)
(* stored, the clock runs, peers close their end, and every cycle of       *)
(* _cleanup_loop calls cleanup_expired()                                   *)
(***************************************************************************)
InitCleanup == InitStorage /\ InitNet({}, HandlerWriters)

\* PeerInfo.last_seen of the peer under key k: set when the connection was
\* dialed, at clock 0; no envelope of the peer arrives here to refresh it
last_seen(n, k) == 0

\* the body of one cycle of _cleanup_loop, after its sleep
CleanupCycle == running[Self] /\ CleanupCall

NextCleanup ==
  \/ StoreCall
  \/ ClockTick
  \/ PeerCloses
  \/ ReaderReturns
  \/ CleanupCycle

SpecCleanup == InitCleanup /\ [][NextCleanup]_vars

(***************************************************************************)
(* One node with its storage: envelopes arrive at A from B and C, the      *)
(* subscribed handler of main.py stores their payload, and the API creates *)
(* requests of its own                                                     *)
(***************************************************************************)
\* A dialed C; B and C dialed A
NodeWriters == [n \in Nodes |-> IF n = Self THEN {"C"} ELSE {Self}]

InitNode == InitStorage /\ InitNet({}, NodeWriters)

\* the requests that travel: created at the current time with the shortest
\* ttl, under a fresh id or an id the storage has seen
NodeInputs == {m \in StoreInputs : m.id \in seen_ids \/ (m.timestamp = now /\ m.ttl_seconds = 1)}

\* HelpRequest.to_gossip_message(): the dict of the fields, hop_count included
to_gossip_message(m, hops) ==
  [id |-> m.id, timestamp |-> m.timestamp, ttl_seconds |-> m.ttl_seconds,
   hop_count |-> hops]

\* HelpRequest.from_gossip_message(payload): a new object with the fields of
\* the dict; hop_count has the default 0
from_gossip_message(payload) ==
  [id |-> payload.id, timestamp |-> payload.timestamp,
   ttl_seconds |-> payload.ttl_seconds,
   hop_count |-> IF "hop_count" \in DOMAIN payload THEN payload.hop_count ELSE 0]

\* increment_hop that returns the request as it is
increment_hop_same(help_request) == help_request

\* HelpRequest.increment_hop(): a copy with hop_count + 1
increment_hop(help_request) == [help_request EXCEPT !.hop_count = @ + 1]

\* handle_help_request(payload): the handler main.py subscribes
handle_help_request(payload) == store(increment_hop(from_gossip_message(payload)))

\* what peer p puts in an envelope: B relays the dict of a request that made
\* one hop, C sends a dict without hop_count (a seen id is rejected whatever
\* the other fields are)
Payloads(p) ==
  IF p = "B"
    THEN {to_gossip_message(m, 1) : m \in {x \in NodeInputs : x.id \notin seen_ids}}
           \cup {m \in NodeInputs : m.id \in seen_ids}
    ELSE NodeInputs

\* peer p writes an envelope with a HelpRequest to its connection to A
PeerSendsEnvelope ==
  /\ \E p \in Nodes \ {Self} : \E m \in Payloads(p) :
        /\ m.id = next_id => next_id <= MaxFresh
        /\ Len(chan[<<p, Self>>]) < MaxQueue
        /\ chan' = [chan EXCEPT ![<<p, Self>>] = Append(@, GossipMessage(m, p))]
  /\ UNCHANGED <<peer_writers, seen_messages, handled, published, messages_received,
                 bleVars, storeVars, peerVars, wireVars>>

\* the reader of A takes the next frame of peer p: _handle_incoming_message,
\* which calls the handler when the message_id is new to the router
NodeIngest ==
  /\ \E p \in Nodes \ {Self} :
        /\ chan[<<p, Self>>] # <<>>
        /\ LET message == Head(chan[<<p, Self>>])
           IN /\ HandleIncoming(Self, message, [chan EXCEPT ![<<p, Self>>] = Tail(@)])
              /\ IF message.message_id \in seen_messages[Self]
                   THEN UNCHANGED storeVars
                   ELSE handle_help_request(message.payload)
  /\ UNCHANGED <<peer_writers, published, bleVars, peerVars, wireVars>>

\* create_help_request of api.py: store(help_request), then publish; the id
\* is a uuid4() no envelope carries yet
ApiCreate ==
  /\ \E m \in {to_gossip_message(x, 0) : x \in NodeInputs} :
        /\ m.id = next_id
        /\ next_id <= MaxFresh
        /\ \A p \in Nodes \ {Self} : \A i \in 1..Len(chan[<<p, Self>>]) :
              chan[<<p, Self>>][i].message_id # m.id
        /\ m.id \notin seen_messages[Self]
        /\ store(m)
        /\ Publish(Self, m)
  /\ UNCHANGED <<peerVars, wireVars>>

\* the peer at the other end of A's connection reads a frame
PeerReads ==
  /\ \E k \in peer_writers[Self] :
        /\ chan[<<Self, k>>] # <<>>
        /\ chan' = [chan EXCEPT ![<<Self, k>>] = Tail(@)]
  /\ UNCHANGED <<peer_writers, seen_messages, handled, published, messages_received,
                 bleVars, storeVars, peerVars, wireVars>>

NextNode ==
  \/ PeerSendsEnvelope
  \/ NodeIngest
  \/ ApiCreate
  \/ PeerReads

SpecNode == InitNode /\ [][NextNode]_vars

(***************************************************************************)
(* Publishing payloads of different sizes: A has a TCP connection to C, a  *)
(* GATT service for the centrals that subscribed to it, and is connected   *)
(* as a central to the BLE peers it found                                  *)
(***************************************************************************)
MAX_MESSAGE_SIZE == 512

MESSAGE_QUEUE_SIZE == 100

\* len(BLEMessage.to_bytes()) of the envelopes published: below, at and above
\* the BLE limit
EncodedSizes == {MAX_MESSAGE_SIZE - 1, MAX_MESSAGE_SIZE, MAX_MESSAGE_SIZE + 1}

\* A dialed C
SizeWriters == [n \in Nodes |-> IF n = Self THEN {"C"} ELSE {}]

InitSize == InitStorage /\ InitNet(MeshNodes, SizeWriters)

\* DisasterService.broadcast_message(message): queued for notification when
\* the encoding fits, the oldest entry dropped beyond MESSAGE_QUEUE_SIZE
broadcast_message(queue, size) ==
  IF size <= MAX_MESSAGE_SIZE
    THEN IF Len(queue) + 1 > MESSAGE_QUEUE_SIZE THEN Append(Tail(queue), size)
                                                ELSE Append(queue, size)
    ELSE queue

\* a payload whose text makes the BLE encoding of its envelope `size` bytes long
WithSize(p, size) ==
  [id |-> p.id, sender_id |-> p.sender_id, timestamp |-> p.timestamp, size |-> size]

\* publish(topic, payload) of a payload whose BLE encoding has `size` bytes:
\* _broadcast to the TCP writers, then BLENode.broadcast: the service queues
\* the notification, and the message is written to every connected client
SizedPublish(n, payload, size) ==
  LET message == GossipMessage(payload, n)
      ble_message == BLEMessage(payload, n, uuid4(ble_uuid + 1))
  IN /\ \A k \in peer_writers[n] : Len(chan[<<n, k>>]) < MaxQueue
     /\ \A q \in ble_clients[n] : Len(ble_chan[q]) < MaxQueue
     /\ seen_messages' = [seen_messages EXCEPT ![n] = @ \cup {message.message_id}]
     /\ chan' = WriteTo(n, message, NoKey)
     /\ ble_uuid' = ble_uuid + 1
     /\ ble_seen' = [ble_seen EXCEPT ![n] = @ \cup {ble_message.message_id}]
     /\ pending_messages' = [pending_messages EXCEPT ![n] = broadcast_message(@, size)]
     /\ ble_chan' = [q \in Nodes |->
                       IF q \in ble_clients[n] THEN Append(ble_chan[q], ble_message)
                                               ELSE ble_chan[q]]
     /\ published' = [published EXCEPT ![n] = Append(@, payload)]
     /\ UNCHANGED <<peer_writers, handled, messages_received, enable_ble, ble_clients>>

SizedPublishCall ==
  /\ SumSent < MaxBlePublish
  /\ enable_ble[Self]
  /\ \E p \in FirstFresh(Self), size \in EncodedSizes :
        SizedPublish(Self, WithSize(p, size), size)
  /\ UNCHANGED <<storeVars, connected_peers, peers, running, sock, dialing, bcast,
                 stop_st, last_beacon, server, tasks, ble_node, stream, dials, wireVars>>

NextSize ==
  \/ BleConnectPeer
  \/ SizedPublishCall
  \/ BleIngestFrame
  \/ PeerReads

SpecSize == InitSize /\ [][NextSize]_vars

(***************************************************************************)
(* Properties of MessageStorage                                            *)
(***************************************************************************)
RetainedIds == {messages[i].id : i \in 1..Len(messages)}

\* the step is a call store(m); a stored m is the last value of the dict
StoreStep(m) ==
  /\ ret'.op = "store" /\ ret'.id = m.id /\ now' = now
  /\ ret'.result = TRUE => (messages' # <<>> /\ messages'[Len(messages')] = m)
  /\ Store(m)

\* C7: store(M) of a non-expired message with an unseen id returns true and
\* has_seen(M.id) holds afterwards; a store of an id that is already seen (the
\* immediately repeated store(M)) returns false, leaves the retained dict and
\* the seen ids as they were, and has_seen(M.id) still holds.
C7_StoreThenStore ==
  [][\A m \in StoreInputs :
       StoreStep(m) =>
         /\ (m.id \notin seen_ids /\ ~is_expired(m, now))
              => (ret'.result = TRUE /\ has_seen(m.id)')
         /\ m.id \in seen_ids
              => /\ ret'.result = FALSE
                 /\ messages' = messages
                 /\ seen_ids' = seen_ids
                 /\ has_seen(m.id)']_vars

\* a repeated store of a retained message has just been rejected
C7_Witness ==
  /\ ret.op = "store" /\ ret.result = FALSE
  /\ ret.id \in RetainedIds
  /\ has_seen(ret.id)
  /\ duplicates_rejected = 1

\* C8: an id whose store returned true stays in the seen ids through every
\* store, eviction and cleanup_expired, and a store of a seen id returns false,
\* whether or not the message is still retained.
C8_DedupOutlivesRetention ==
  [][/\ seen_ids \subseteq seen_ids'
     /\ \A m \in StoreInputs :
          StoreStep(m) =>
            /\ ret'.result = TRUE => m.id \in seen_ids'
            /\ m.id \in seen_ids => ret'.result = FALSE]_vars

\* a store of an id that is seen but no longer retained has just been rejected
C8_Witness ==
  /\ ret.op = "store" /\ ret.result = FALSE
  /\ ret.id \in seen_ids
  /\ ret.id \notin RetainedIds

\* C9: after a store() that returned true the retained dict holds at most
\* max_messages messages.
C9_SizeWithinCapacity ==
  (ret.op = "store" /\ ret.result = TRUE) => Len(messages) <= max_messages

\* a store into a full dict returned true and the dict is full again
C9_Witness ==
  /\ ret.op = "store" /\ ret.result = TRUE
  /\ ret.evicted > 0
  /\ Len(messages) = max_messages

\* C10: a store() that finds n >= max_messages retained messages and inserts
\* evicts exactly max(1, n div 10) of them first.
C10_EvictionCount ==
  [][\A m \in StoreInputs :
       (ret'.op = "store" /\ ret'.result = TRUE /\ Len(messages) >= max_messages
          /\ StoreStep(m))
         => /\ Len(messages') = Len(messages) - Max(1, Len(messages) \div 10) + 1
            /\ ret'.evicted = Max(1, Len(messages) \div 10)]_vars

\* a store into a dict of at least 20 messages evicted two of them
C10_Witness ==
  /\ ret.op = "store" /\ ret.result = TRUE
  /\ ret.evicted = 2
  /\ Len(messages) = max_messages - 1

\* the values of the dict
Retained(s) == {s[i] : i \in 1..Len(s)}

\* C11: a store that evicts removes only messages whose timestamp is at most
\* that of every message it keeps, removes at least one, and the stored
\* message is retained afterwards whatever its own timestamp.
C11_EvictsSmallestTimestamps ==
  [][(/\ ret'.op = "store" /\ now' = now
      /\ ret'.result = TRUE
      /\ Len(messages) >= max_messages)
       => LET Old     == Retained(messages)
              New     == Retained(messages')
              Evicted == Old \ New
              Kept    == Old \cap New
          IN /\ Evicted # {}
             /\ \A e \in Evicted : \A k \in Kept : e.timestamp <= k.timestamp
             /\ \E x \in New \ Old : x.id = ret'.id
             /\ Cardinality(New \ Old) = 1]_vars

\* a store evicted two messages and retained a message whose timestamp is the
\* smallest there is, next to retained messages of other timestamps
C11_Witness ==
  /\ ret.op = "store" /\ ret.result = TRUE /\ ret.evicted = 2
  /\ messages # <<>>
  /\ messages[Len(messages)].id = ret.id
  /\ messages[Len(messages)].timestamp = 0
  /\ \E i \in 1..Len(messages) : messages[i].timestamp = 2
  /\ \E i \in 1..(Len(messages) - 1) : messages[i].timestamp = 0

\* the retained dict, the seen ids and total_received are as before the step
StoreUntouched ==
  /\ messages' = messages
  /\ seen_ids' = seen_ids
  /\ total_received' = total_received

\* C12 as stated: store(M) of a message with now - timestamp > ttl_seconds
\* returns false and changes neither the retained set, the seen ids nor any
\* counter; a message with an unseen id whose age is at most ttl_seconds is
\* stored.
C12_ExpiredRejectedNoCounter ==
  [][\A m \in StoreInputs :
       StoreStep(m) =>
         /\ (now - m.timestamp > m.ttl_seconds)
              => /\ ret'.result = FALSE
                 /\ StoreUntouched
                 /\ duplicates_rejected' = duplicates_rejected
         /\ (now - m.timestamp <= m.ttl_seconds /\ m.id \notin seen_ids)
              => ret'.result = TRUE]_vars

\* C12 amended: store(M) of an expired message returns false and leaves the
\* retained set, the seen ids and total_received unchanged; duplicates_rejected
\* is unchanged when M.id was not seen and grows by one when it was (the
\* duplicate test comes first); a message with an unseen id whose age is at
\* most ttl_seconds is stored.
C12_ExpiredRejected ==
  [][\A m \in StoreInputs :
       StoreStep(m) =>
         /\ (now - m.timestamp > m.ttl_seconds)
              => /\ ret'.result = FALSE
                 /\ StoreUntouched
                 /\ duplicates_rejected' =
                      IF m.id \in seen_ids THEN duplicates_rejected + 1
                                           ELSE duplicates_rejected
         /\ (now - m.timestamp <= m.ttl_seconds /\ m.id \notin seen_ids)
              => ret'.result = TRUE]_vars

\* a store was rejected for expiry alone: it returned false for an id that
\* was never seen
C12_Witness ==
  /\ ret.op = "store" /\ ret.result = FALSE
  /\ ret.id \notin seen_ids
  /\ duplicates_rejected = 0
  /\ now > 0

\* C13: whenever get_all(include_expired=false) is called, every message it
\* returns has now - timestamp <= ttl_seconds, and a retained message that
\* has expired is not returned, cleanup or not.
C13_GetAllOnlyLive ==
  LET result   == get_all(FALSE)
      returned == {result[k] : k \in 1..Len(result)}
  IN /\ \A m \in returned : now - m.timestamp <= m.ttl_seconds
     /\ \A i \in 1..Len(messages) :
          (now - messages[i].timestamp > messages[i].ttl_seconds)
            => messages[i] \notin returned

\* after a store (no cleanup since) the dict holds an expired message next to
\* live ones, and get_all(false) returns only the live ones
C13_Witness ==
  /\ ret.op = "store"
  /\ \E i \in 1..Len(messages) : now - messages[i].timestamp > messages[i].ttl_seconds
  /\ get_all(FALSE) # <<>>
  /\ Len(get_all(FALSE)) < Len(messages)
  /\ Len(get_all(TRUE)) = Len(messages)

AgeOver(m) == now - m.timestamp > m.ttl_seconds

AgeWithin(m) == now - m.timestamp <= m.ttl_seconds

\* C14: cleanup_expired() removes exactly the retained messages that are
\* expired, keeps every other message (in its place), leaves the seen ids
\* unchanged and returns the number of messages it removed.
C14_CleanupExactlyExpired ==
  [][(ret'.op = "cleanup_expired" /\ now' = now)
       => /\ Retained(messages') = {m \in Retained(messages) : AgeWithin(m)}
          /\ messages' = SelectSeq(messages, AgeWithin)
          /\ seen_ids' = seen_ids
          /\ ret'.result = Len(SelectSeq(messages, AgeOver))
          /\ ret'.result = Len(messages) - Len(messages')]_vars

\* a cleanup removed some messages and kept others
C14_Witness ==
  /\ ret.op = "cleanup_expired"
  /\ ret.result > 0
  /\ messages # <<>>
  /\ \A i \in 1..Len(messages) : AgeWithin(messages[i])
  /\ Cardinality(seen_ids) = Len(messages) + ret.result

(***************************************************************************)
(* Properties of the gossip plane                                          *)
(***************************************************************************)
\* number of entries of log equal to x
Count(log, x) == Cardinality({i \in 1..Len(log) : log[i] = x})

\* number of handler calls whose payload carries id
CountId(log, id) == Cardinality({i \in 1..Len(log) : log[i].id = id})

InLog(log, x) == \E i \in 1..Len(log) : log[i] = x

\* no frame is in flight on any connection
Quiescent == \A l \in Links : chan[l] = <<>>

\* a TCP connection exists between a and b, dialed by either side
Connected(a, b) ==
  \/ \E k \in peer_writers[a] : KeyTarget(k) = b
  \/ \E k \in peer_writers[b] : KeyTarget(k) = a

\* C1: a node calls its handler at most once per message_id, whatever else it
\* ingests or publishes in between.
C1_AtMostOncePerId ==
  \A n \in Nodes : \A id \in MessageIds : CountId(handled[n], id) <= 1

\* C2: however often and over whichever transports (TCP, BLE) the same
\* payload reaches a node, the node's handler is called exactly once with it.
C2_OnceAcrossTransports ==
  \A n \in Nodes : \A i \in 1..Len(handled[n]) : Count(handled[n], handled[n][i]) = 1

\* C3: once no frame is in flight, every payload published on a node has been
\* handed exactly once to the handler of every node it shares a TCP connection
\* with, whichever side dialed.
C3_PublishReachesConnectedPeer ==
  Quiescent =>
    \A a \in Nodes, b \in Nodes :
      (a # b /\ Connected(a, b))
        => \A i \in 1..Len(published[a]) : Count(handled[b], published[a][i]) = 1

\* the payloads A can publish in the chain
ChainPayloads ==
  {[id |-> i, sender_id |-> "A", timestamp |-> t] : i \in MessageIds, t \in 1..MaxPublish}

C5_NoSelfDelivery ==
  \A n \in Nodes : \A i \in 1..Len(handled[n]) : ~InLog(published[n], handled[n][i])

\* C6: when a node published X and later X2 under the same id and a peer
\* handled X, that peer never handles X2.
C6_FirstWriteWins ==
  \A a \in Nodes, b \in Nodes :
    \A i \in 1..Len(published[a]), j \in 1..Len(published[a]) :
      (/\ a # b
       /\ i < j
       /\ published[a][i].id = published[a][j].id
       /\ InLog(handled[b], published[a][i]))
        => ~InLog(handled[b], published[a][j])

\* the entries of log whose sender_id is a, in order
FromSender(log, a) ==
  LET F[k \in 0..Len(log)] ==
        IF k = 0 THEN <<>>
        ELSE IF log[k].sender_id = a THEN Append(F[k-1], log[k]) ELSE F[k-1]
  IN F[Len(log)]

IsPrefix(s, t) == Len(s) <= Len(t) /\ \A i \in 1..Len(s) : s[i] = t[i]

\* C17: over a single TCP stream envelopes with distinct ids reach the
\* receiver's handler in the order the sender wrote them.  In the chain A
\* writes to B what it publishes, in that order, and B writes to C what it
\* publishes and what it handles (forwards), each in that order.
C17_StreamOrder ==
  /\ IsPrefix(handled["B"], published["A"])
  /\ IsPrefix(FromSender(handled["C"], "A"), handled["B"])
  /\ IsPrefix(FromSender(handled["C"], "B"), published["B"])

\* two payloads of A went down the chain and C has handled both, next to a
\* payload of B
C17_Witness ==
  /\ Len(published["A"]) >= 2
  /\ Len(FromSender(handled["C"], "A")) >= 2
  /\ Len(FromSender(handled["C"], "B")) >= 1

(***************************************************************************)
(* Properties of the peer management                                       *)
(***************************************************************************)
\* C15: in every state a peer id is in the connected set and has a PeerInfo
\* exactly when an outbound writer is registered for it, stop() included.
C15_PeerTablesAgree ==
  \A n \in Nodes :
    /\ connected_peers[n] = peer_writers[n]
    /\ peers[n] = peer_writers[n]

\* C19: a discovery datagram that carries the node's own node_id starts no
\* dial and leaves the peer registry as it was
C19_OwnBeaconIgnored ==
  [][(last_beacon' # last_beacon /\ last_beacon'.node_id = last_beacon'.node)
       => UNCHANGED <<dialing, peer_writers, connected_peers, peers, sock>>]_vars

\* the node's own datagram was the last to arrive while one peer is registered
\* and a dial to another is pending
C19_Witness ==
  /\ last_beacon = [node |-> Self, node_id |-> Self]
  /\ "B" \in connected_peers[Self]
  /\ "C" \in dialing[Self]
  /\ Self \notin dialing[Self]

\* C20: a publish that starts after a peer closed its connection and the node
\* removed it from the registry completes without error and writes to none of
\* the removed peers
C20_PublishAfterRemoval ==
  \A n \in Nodes :
    bcast[n].gone # {} =>
      /\ bcast[n].pc # "raised"
      /\ bcast[n].wrote \cap bcast[n].gone = {}

\* what stop() is to leave behind on node n
StoppedState(n) ==
  [running |-> running[n], writers |-> peer_writers[n],
   open |-> {k \in PeerKeys : <<n, k>> \in Links /\ sock[<<n, k>>] = "open"},
   connected |-> connected_peers[n], peers |-> peers[n],
   server |-> server[n], tasks |-> tasks[n], ble_node |-> ble_node[n]]

\* C21: stop() is idempotent: a stop() call that follows an earlier stop()
\* call, and a stop() call on a node that was never started, completes without
\* error and changes nothing of the stopped state
C21_StopIdempotent ==
  [][(/\ stop_st'[Self].calls = stop_st[Self].calls + 1
      /\ stop_st[Self].calls >= 1 \/ server[Self] = "none")
       => /\ stop_st'[Self].pc = "done"
          /\ StoppedState(Self)' = IF stop_st[Self].calls >= 1
                                     THEN StoppedState(Self)
                                     ELSE [StoppedState(Self) EXCEPT !.running = FALSE]]_vars

\* C22: when a stop() call returns, the shutdown flag is set, every peer
\* writer is closed and no peer is registered, the server is closed, the
\* background tasks are cancelled and the BLE node, if started, is stopped
C22_StopPostcondition ==
  [][(stop_st' # stop_st /\ stop_st'[Self].pc = "done")
       => LET after == StoppedState(Self)'
          IN /\ ~after.running
             /\ after.writers = {} /\ after.open = {}
             /\ after.connected = {} /\ after.peers = {}
             /\ after.server # "listening"
             /\ after.tasks # "running"
             /\ after.ble_node # "started"]_vars

(***************************************************************************)
(* Properties of one peer socket                                           *)
(***************************************************************************)

\* C16: while publish tasks and a forwarding task write to the same peer
\* socket, the frames on the socket are never interleaved: every body is
\* directly preceded by the length prefix of the same message, and every
\* prefix that something follows is followed by its own body
C16_FramesNotInterleaved ==
  \A i \in 1..Len(wire) :
    /\ (wire[i].part = "prefix" /\ i < Len(wire)) =>
          (wire[i + 1].part = "body" /\ wire[i + 1].of = wire[i].of)
    /\ wire[i].part = "body" =>
          (i > 1 /\ wire[i - 1].part = "prefix" /\ wire[i - 1].of = wire[i].of)

\* all three tasks have written and none has come back from drain(); the
\* forwarded frame went out between the two published ones
C16_Witness ==
  /\ \A t \in WTasks : wtask[t] = 1
  /\ Len(wire) = 6
  /\ wire[3].of = "req-3"
  /\ published[Self] = <<>>

(***************************************************************************)
(* Properties of the frame readers                                         *)
(***************************************************************************)

\* C18: whenever a frame reader, on an accepted or on a dialed connection,
\* takes a frame, one with declared length up to MESSAGE_BUFFER_SIZE is handed
\* on and the connection stays open, and one with a greater declared length
\* closes the connection and nothing of it is processed
C18_LengthLimit ==
  [][\A r \in Readers :
       (rconn'[r] # rconn[r] /\ from_json(inbox[r][rconn[r].read + 1].body) = "ok") =>
         LET msg == inbox[r][rconn[r].read + 1]
         IN IF msg.length > MESSAGE_BUFFER_SIZE
              THEN /\ rconn'[r].st = "closed"
                   /\ UNCHANGED <<chan, seen_messages, handled, messages_received>>
              ELSE /\ rconn'[r].st = "open"
                   /\ rconn'[r].read = rconn[r].read + 1]_vars

\* C25: a frame whose body is not valid JSON, or whose JSON lacks one of
\* topic, payload, sender_id, message_id, is dropped: nothing is delivered or
\* forwarded, the connection stays open and the reader goes on to the frames
\* that follow
C25_MalformedFrameDropped ==
  [][\A r \in Readers :
       rconn'[r] # rconn[r] =>
         LET msg == inbox[r][rconn[r].read + 1]
         IN (msg.length <= MESSAGE_BUFFER_SIZE /\ from_json(msg.body) # "ok")
              => /\ rconn'[r].st = "open"
                 /\ rconn'[r].read = rconn[r].read + 1
                 /\ UNCHANGED <<chan, seen_messages, handled, messages_received>>]_vars

\* C26: an envelope that arrives at A with a message_id A has already seen is
\* ignored (no delivery, no forwarding, nothing stored) and the
\* duplicates_rejected counter of A goes up by exactly 1
C26_DuplicateCounted ==
  [][\A p \in Nodes \ {Self} :
       (/\ chan[<<p, Self>>] # <<>>
        /\ chan'[<<p, Self>>] = Tail(chan[<<p, Self>>])
        /\ Head(chan[<<p, Self>>]).message_id \in seen_messages[Self])
         => /\ UNCHANGED <<handled, messages, seen_ids, total_received>>
            /\ \A k \in peer_writers[Self] : chan'[<<Self, k>>] = chan[<<Self, k>>]
            /\ duplicates_rejected' = duplicates_rejected + 1]_vars

\* C27: when node n ingests a new envelope from peer p, the envelope is written
\* to every registered peer of n other than p, and nothing is written to p,
\* whoever the envelope's sender_id names
C27_ForwardExceptSource ==
  [][\A l \in Links :
       LET p == l[1]
           n == KeyTarget(l[2])
       IN (/\ chan[l] # <<>>
           /\ chan'[l] = Tail(chan[l])
           /\ Head(chan[l]).message_id \notin seen_messages[n])
            => \A k \in peer_writers[n] :
                 chan'[<<n, k>>] = IF KeyTarget(k) = p
                                     THEN chan[<<n, k>>]
                                     ELSE Append(chan[<<n, k>>], Head(chan[l]))]_vars

\* the frames node n wrote to its peers in this step
Forwarded(n) ==
  {chan'[<<n, k>>][Len(chan'[<<n, k>>])] :
     k \in {k \in peer_writers[n] : Len(chan'[<<n, k>>]) > Len(chan[<<n, k>>])}}

\* C28 as stated: every envelope a node forwards is the envelope it received,
\* field for field
C28_ForwardedVerbatim ==
  [][\A l \in Links :
       (chan[l] # <<>> /\ chan'[l] = Tail(chan[l]))
         => \A f \in Forwarded(KeyTarget(l[2])) : f = Head(chan[l])]_vars

\* C28, amended: a forwarded envelope has the topic, payload, sender_id and
\* message_id of the received one, and its timestamp when the received one
\* carries a timestamp; otherwise it carries the clock reading of the node
\* that read it
C28_ForwardedFields ==
  [][\A l \in Links :
       (chan[l] # <<>> /\ chan'[l] = Tail(chan[l]))
         => \A f \in Forwarded(KeyTarget(l[2])) :
              LET d == Head(chan[l])
              IN /\ without_timestamp(f) = without_timestamp(d)
                 /\ f.timestamp = IF "timestamp" \in DOMAIN d THEN d.timestamp ELSE now]_vars

\* an envelope that was published at an earlier clock reading waits on the
\* connection of a node that is not its sender: it has been forwarded
C28_Witness ==
  \E l \in Links : \E i \in 1..Len(chan[l]) :
    /\ "timestamp" \in DOMAIN chan[l][i]
    /\ chan[l][i].sender_id \in Nodes \ {l[1]}
    /\ chan[l][i].timestamp < now

\* C29: the seen ids of the storage and the seen set of every router hold at
\* most the cap (10000, scaled to SEEN_CAP) ids in every reachable state
C29_SeenSetsBounded ==
  /\ Cardinality(seen_ids) <= SEEN_CAP
  /\ \A n \in Nodes : Cardinality(seen_messages[n]) <= SEEN_CAP

\* C30: when the ingest of a new id makes the seen set of node n overflow and
\* the set is trimmed, the id just inserted is still in the set after the trim
C30_TrimKeepsNewest ==
  [][\A n \in Nodes :
       (/\ Len(handled'[n]) = Len(handled[n]) + 1
        /\ Cardinality(seen_messages[n]) >= SEEN_CAP)
         => handled'[n][Len(handled'[n])].id \in seen_messages'[n]]_vars

(***************************************************************************)
(* Properties of the delivery to handlers                                  *)
(***************************************************************************)

\* C23: when a subscribed handler raises while a message is delivered, every
\* handler subscribed to the topic is still called, and the message is still
\* written to every peer other than its sender
C23_HandlerErrorIsolated ==
  [][handler_log' # handler_log =>
       LET entry == handler_log'[Len(handler_log')]
       IN /\ entry.calls = Handlers
          /\ \A k \in peer_writers[Self] :
               k # entry.message.sender_id =>
                 chan'[<<Self, k>>] = Append(chan[<<Self, k>>], entry.message)]_vars

\* the first and the last handler raised on a delivered message, and the
\* message is on the socket to B
C23_Witness ==
  /\ handler_log # <<>>
  /\ handler_log[1].raising = {"h1", "h3"}
  /\ handler_log[1].calls = Handlers
  /\ chan[<<Self, "B">>] # <<>>
  /\ chan[<<Self, "B">>][1] = handler_log[1].message

(***************************************************************************)
(* Properties of writes that fail                                          *)
(***************************************************************************)

\* node n has dropped peer k: no table lists it and its writer is not open
Dropped(n, k) ==
  /\ k \notin peer_writers[n] /\ k \notin connected_peers[n] /\ k \notin peers[n]
  /\ sock[<<n, k>>] # "open"

\* C24: when a write to a peer fails, in the broadcast of a published message
\* or in the forwarding of an ingested one, the peer is removed from the
\* registry and its writer is closed, and every other peer is written to
C24_FailedWriteDropsPeer ==
  [][/\ (bcast[Self].pc = "iter" /\ bcast'[Self].pc \in {"done", "raised"})
          => /\ \A k \in bcast'[Self].failed : Dropped(Self, k)'
             /\ Cardinality(bcast'[Self].wrote \cup bcast'[Self].failed) = bcast'[Self].size
     /\ handled'[Self] # handled[Self]
          => LET payload == handled'[Self][Len(handled'[Self])]
             IN \A k \in peer_writers[Self] \ {payload.sender_id} :
                  \/ chan'[<<Self, k>>] = Append(chan[<<Self, k>>], GossipMessage(payload, payload.sender_id))
                  \/ Dropped(Self, k)']_vars

(***************************************************************************)
(* Properties of the peer registry and the transports                      *)
(***************************************************************************)
\* C31: once the reader of the accepted connection has handled an envelope of
\* its peer, the peer is in the registry of the node with a writer
C31_InboundAdopted ==
  [][(/\ rconn'["accepted"].read = rconn["accepted"].read + 1
      /\ messages_received'[Self] = messages_received[Self] + 1)
       => /\ ReaderPeer("accepted") \in peer_writers'[Self]
          /\ ReaderPeer("accepted") \in connected_peers'[Self]]_vars

\* C32: a cleanup cycle leaves no expired message in the store and no peer in
\* the registry whose last_seen is older than the limit and whose writer is
\* not writable
C32_CleanupPrunesPeers ==
  [][(ret'.op = "cleanup_expired" /\ ret' # ret)
       => /\ \A i \in 1..Len(messages') : ~is_expired(messages'[i], now)
          /\ \A k \in peer_writers[Self] :
               (sock[<<Self, k>>] # "open" /\ now - last_seen(Self, k) > STALE_AFTER)
                 => /\ k \notin peer_writers'[Self]
                    /\ k \notin connected_peers'[Self]
                    /\ k \notin peers'[Self]]_vars

\* C33: the registry never holds two entries that lead to the same remote
\* node, and once an envelope has revealed the node id of a peer dialed by
\* endpoint, the entry is no longer keyed by the endpoint
C33_OneEntryPerNode ==
  /\ \A k1 \in peer_writers[Self], k2 \in peer_writers[Self] :
        KeyTarget(k1) = KeyTarget(k2) => k1 = k2
  /\ \A k \in peer_writers[Self] :
        (\E i \in 1..Len(handled[Self]) : handled[Self][i].sender_id = KeyTarget(k))
          => k \in Nodes

\* C34: every envelope a node has emitted, on a TCP connection or as a GATT
\* write, has the id of its payload as message_id
C34_MessageIdIsPayloadId ==
  /\ \A l \in Links : \A i \in 1..Len(chan[l]) :
        chan[l][i].message_id = chan[l][i].payload.id
  /\ \A q \in Nodes : \A i \in 1..Len(ble_chan[q]) :
        ble_chan[q][i].message_id = ble_chan[q][i].payload.id

\* C35: a publish of an envelope whose BLE encoding is longer than
\* MAX_MESSAGE_SIZE writes it to every TCP peer and sends it to no BLE peer:
\* no GATT write to a connected peripheral, nothing queued for notification
C35_OversizeNotOnBle ==
  [][(/\ Len(published'[Self]) = Len(published[Self]) + 1
      /\ published'[Self][Len(published'[Self])].size > MAX_MESSAGE_SIZE)
       => /\ \A k \in peer_writers[Self] :
               chan'[<<Self, k>>] =
                 Append(chan[<<Self, k>>],
                        GossipMessage(published'[Self][Len(published'[Self])], Self))
          /\ UNCHANGED <<ble_chan, pending_messages>>]_vars


\* hop_count of a received payload: the default 0 when the dict has none
ReceivedHops(payload) ==
  IF "hop_count" \in DOMAIN payload THEN payload.hop_count ELSE 0

\* C36: when the handler stores the HelpRequest of an envelope read from a
\* peer, the stored copy has the id, timestamp and ttl_seconds of the received
\* payload and its hop_count plus one, and the received payload itself is
\* delivered and forwarded as it arrived
C36_StoredCopyOneMoreHop ==
  [][\A p \in Nodes \ {Self} :
       (/\ chan[<<p, Self>>] # <<>>
        /\ chan'[<<p, Self>>] = Tail(chan[<<p, Self>>])
        /\ seen_ids' # seen_ids)
       => LET payload == Head(chan[<<p, Self>>]).payload
              copy == messages'[Len(messages')]
          IN /\ copy.id = payload.id
             /\ copy.timestamp = payload.timestamp
             /\ copy.ttl_seconds = payload.ttl_seconds
             /\ copy.hop_count = ReceivedHops(payload) + 1
             /\ handled'[Self][Len(handled'[Self])] = payload
             /\ \A k \in peer_writers[Self] \ {p} :
                   chan'[<<Self, k>>][Len(chan'[<<Self, k>>])].payload = payload]_vars

\* a request that arrived after one hop is stored with two, next to one that
\* arrived without a hop_count
C36_Witness ==
  /\ \E i \in 1..Len(messages), j \in 1..Len(handled[Self]) :
        /\ messages[i].id = handled[Self][j].id
        /\ messages[i].hop_count = 2
        /\ handled[Self][j].hop_count = 1
  /\ \E i \in 1..Len(messages), j \in 1..Len(handled[Self]) :
        /\ messages[i].id = handled[Self][j].id
        /\ messages[i].hop_count = 1
        /\ "hop_count" \notin DOMAIN handled[Self][j]

\* C37: a node runs the gossip loop for an envelope at most once: an envelope it
\* handles, and so writes to its peers, is one it has neither handled nor
\* published before
C37_ForwardedAtMostOnce ==
  [][\A n \in Nodes :
       Len(handled'[n]) > Len(handled[n])
       => LET payload == handled'[n][Len(handled'[n])]
          IN /\ \A i \in 1..Len(handled[n]) : handled[n][i].id # payload.id
             /\ \A i \in 1..Len(published[n]) : published[n][i].id # payload.id]_vars

\* C38: whatever the segments were, the reader's loop is still running and,
\* once every written byte was consumed, the envelopes handled are exactly
\* the envelopes written, in order
C38_SegmentationInvisible ==
  /\ stream.at # "closed"
  /\ \A i \in 1..Len(handled[Self]) :
        i <= Len(stream.written) /\ handled[Self][i] = stream.written[i].payload
  /\ (stream.net = <<>> /\ stream.buf = <<>> /\ stream.at = "prefix")
       => Len(handled[Self]) = Len(stream.written)

\* C39: a broadcast never ends in an exception, and when it ends no peer it
\* had still to write to is in the registry
C39_BroadcastOnSnapshot ==
  \A n \in Nodes :
    /\ bcast[n].pc # "raised"
    /\ bcast[n].pc = "done" => bcast[n].todo \cap peer_writers[n] = {}

\* C40: the writer registered for the peer id belongs to a connection that
\* was not closed by the node and whose reader task has not returned, every
\* open connection has its writer in the registry, and a reader task that
\* returns removes no entry that holds the writer of another connection
C40_RegistryFollowsConnections ==
  [][/\ dials'.writer # 0 => dials'.conns[dials'.writer] \in {"open", "eof"}
     /\ \A i \in 1..Len(dials'.conns) :
           dials'.conns[i] = "open" => dials'.writer = i
     /\ \A i \in 1..Len(dials.conns) :
           (dials.conns[i] # "ended" /\ dials'.conns[i] = "ended"
              /\ dials.writer # 0 /\ dials.writer # i)
           => dials'.writer = dials.writer]_vars

====
